---- MODULE Spec2Model ----
(***************************************************************************)
(* A model of cato_provisioning.py: the sequence execution engine          *)
(* (ProvisioningOrchestrator), the template resolver (JSONSequenceLoader), *)
(* the CSV loader (CSVDataLoader) and the transport adapter                *)
(* (CatoGraphQLClient.execute).                                            *)
(*                                                                         *)
(* Representation of Python values.                                        *)
(*   - a str is a sequence of one-character strings ("@t" is <<"@","t">>), *)
(*     so that startswith, endswith, slicing, split and strip are computed *)
(*     as the code computes them;                                          *)
(*   - a dict is a function whose domain is a finite set of strs;          *)
(*   - a value held inside a dict or a list is tagged with its type:       *)
(*     [str |-> s], [num |-> n], [bool |-> b], [map |-> d], [list |-> l],  *)
(*     and None is [null |-> TRUE].                                        *)
(***************************************************************************)
EXTENDS Integers, Sequences, FiniteSets, TLC

\* ------------------------------------------------------------------ bounds

\* The longest step list of a plan.
MaxSteps == 2
\* The number of transport calls of one run that the remote service fails.
MaxFailures == 1

\* ----------------------------------------------------------- Python values

VStr(s) == [str |-> s]
VNum(n) == [num |-> n]
VMap(d) == [map |-> d]
VList(l) == [list |-> l]
None == [null |-> TRUE]

IsStr(v) == DOMAIN v = {"str"}
IsNum(v) == DOMAIN v = {"num"}
IsMap(v) == DOMAIN v = {"map"}
IsList(v) == DOMAIN v = {"list"}

\* Python truthiness (bool(v)).
Truthy(v) ==
    IF IsStr(v) THEN v.str # <<>>
    ELSE IF IsNum(v) THEN v.num # 0
    ELSE IF IsMap(v) THEN DOMAIN v.map # {}
    ELSE IF IsList(v) THEN v.list # <<>>
    ELSE FALSE

EmptyDict == <<>>

\* d[k] = v
DictSet(d, k, v) == [x \in DOMAIN d \cup {k} |-> IF x = k THEN v ELSE d[x]]

\* d.get(k): None when the key is absent
DictGet(d, k) == IF k \in DOMAIN d THEN d[k] ELSE None

\* ------------------------------------------------------------ str methods

startswith(s, p) == Len(s) >= Len(p) /\ SubSeq(s, 1, Len(p)) = p

endswith(s, p) == Len(s) >= Len(p) /\ SubSeq(s, Len(s) - Len(p) + 1, Len(s)) = p

\* s[a:] with a >= 0 (0-based, as in Python)
SliceFrom(s, a) == SubSeq(s, a + 1, Len(s))

\* s[a:-1] with a >= 0
SliceInner(s, a) == SubSeq(s, a + 1, Len(s) - 1)

Whitespace == {" "}

RECURSIVE lstrip(_)
lstrip(s) == IF s # <<>> /\ Head(s) \in Whitespace THEN lstrip(Tail(s)) ELSE s

RECURSIVE rstrip(_)
rstrip(s) ==
    IF s # <<>> /\ s[Len(s)] \in Whitespace THEN rstrip(SubSeq(s, 1, Len(s) - 1)) ELSE s

strip(s) == rstrip(lstrip(s))

\* s.split('.'): the list of the parts between the dots
RECURSIVE split_dot(_, _)
split_dot(s, cur) ==
    IF s = <<>> THEN <<cur>>
    ELSE IF Head(s) = "." THEN <<cur>> \o split_dot(Tail(s), <<>>)
    ELSE split_dot(Tail(s), Append(cur, Head(s)))

split(s) == split_dot(s, <<>>)

Digits == {"0", "1", "2", "3", "4", "5", "6", "7", "8", "9"}

DigitValue(c) ==
    CASE c = "0" -> 0 [] c = "1" -> 1 [] c = "2" -> 2 [] c = "3" -> 3 [] c = "4" -> 4
      [] c = "5" -> 5 [] c = "6" -> 6 [] c = "7" -> 7 [] c = "8" -> 8 [] c = "9" -> 9

isdigit(s) == s # <<>> /\ \A k \in 1..Len(s) : s[k] \in Digits

RECURSIVE int(_)
int(s) == IF s = <<>> THEN 0 ELSE 10 * int(SubSeq(s, 1, Len(s) - 1)) + DigitValue(s[Len(s)])

\* ------------------------------------------------------------- names used

K_iteration_row == <<"i", "t", "e", "r", "a", "t", "i", "o", "n", "_", "r", "o", "w">>
K_iteration_index ==
    <<"i", "t", "e", "r", "a", "t", "i", "o", "n", "_", "i", "n", "d", "e", "x">>
K_accountId == <<"a", "c", "c", "o", "u", "n", "t", "I", "d">>
K_errors == <<"e", "r", "r", "o", "r", "s">>
K_raw_text == <<"r", "a", "w", "_", "t", "e", "x", "t">>
K_field == <<"f", "i", "e", "l", "d">>
K_operator == <<"o", "p", "e", "r", "a", "t", "o", "r">>
K_value == <<"v", "a", "l", "u", "e">>
K_local_key == <<"l", "o", "c", "a", "l", "_", "k", "e", "y">>
K_context_key == <<"c", "o", "n", "t", "e", "x", "t", "_", "k", "e", "y">>
K_sequence == <<"s", "e", "q", "u", "e", "n", "c", "e">>
K_enabled == <<"e", "n", "a", "b", "l", "e", "d">>
K_step_name == <<"s", "t", "e", "p", "_", "n", "a", "m", "e">>
K_operation == <<"o", "p", "e", "r", "a", "t", "i", "o", "n">>
K_params == <<"p", "a", "r", "a", "m", "s">>
K_wait_seconds == <<"w", "a", "i", "t", "_", "s", "e", "c", "o", "n", "d", "s">>
K_store_result_as == <<"s", "t", "o", "r", "e", "_", "r", "e", "s", "u", "l", "t", "_", "a", "s">>
K_iterate_over == <<"i", "t", "e", "r", "a", "t", "e", "_", "o", "v", "e", "r">>
K_iteration_scope == <<"i", "t", "e", "r", "a", "t", "i", "o", "n", "_", "s", "c", "o", "p", "e">>
K_graphql_query == <<"g", "r", "a", "p", "h", "q", "l", "_", "q", "u", "e", "r", "y">>
K_data_source_file == <<"d", "a", "t", "a", "_", "s", "o", "u", "r", "c", "e", "_", "f", "i", "l", "e">>
K_join_on == <<"j", "o", "i", "n", "_", "o", "n">>
K_filter_by == <<"f", "i", "l", "t", "e", "r", "_", "b", "y">>
K_condition == <<"c", "o", "n", "d", "i", "t", "i", "o", "n">>
K_master_data_source == <<"m", "a", "s", "t", "e", "r", "_", "d", "a", "t", "a", "_", "s", "o", "u", "r", "c", "e">>
K_master_iterate_over == <<"m", "a", "s", "t", "e", "r", "_", "i", "t", "e", "r", "a", "t", "e", "_", "o", "v", "e", "r">>

\* The operators of a condition.
OP_eq == <<"=", "=">>
OP_ne == <<"!", "=">>
OP_in == <<"i", "n">>
OP_not_in == <<"n", "o", "t", "_", "i", "n">>
OP_contains == <<"c", "o", "n", "t", "a", "i", "n", "s">>

\* The strings of the model's plans and datasets.
S_empty == <<>>
K_x == <<"x">>
K_i == <<"i">>
K_n == <<"n">>
K_t == <<"t">>
K_p == <<"p">>
K_s == <<"s">>
K_d == <<"d">>
N_S == <<"S">>
N_T == <<"T">>
N_sites == <<"s", "i", "t", "e", "s">>
N_lans == <<"l", "a", "n", "s">>
F_sites == <<"s", "i", "t", "e", "s", ".", "c", "s", "v">>
F_lans == <<"l", "a", "n", "s", ".", "c", "s", "v">>
F_gone == <<"g", "o", "n", "e", ".", "c", "s", "v">>
Q_query == <<"q">>

\* -------------------------------------------------------------- file system

\* The text of the CSV files that exist, one mapping header -> field per line
\* (csv.DictReader's rows), before load_data filters them.
RawSites ==
    << (K_n :> <<"A">>) @@ (K_t :> <<"t", "1">>),
       (K_n :> <<"B">>) @@ (K_t :> <<>>) >>

RawLans ==
    << (K_n :> <<"L">>) @@ (K_s :> <<"A">>) @@ (K_t :> <<" ">>),
       (K_n :> <<"M">>) @@ (K_s :> <<"B">>) @@ (K_t :> <<"u">>) >>

\* Path(p).exists()
PathExists(path) == path \in {F_sites, F_lans}

\* csv.DictReader over the file at path
DictReader(path) == IF path = F_sites THEN RawSites ELSE RawLans

\* CSVDataLoader.load_data: every row without its empty fields
filtered_row(row) == [k \in {c \in DOMAIN row : row[c] # <<>>} |-> VStr(row[k])]

load_data(path) == [r \in 1..Len(DictReader(path)) |-> filtered_row(DictReader(path)[r])]

\* ------------------------------------------------------- template resolver

Range(s) == {s[k] : k \in 1..Len(s)}

\* The descent of ${a.b.c} through the parts after the first.
RECURSIVE descend(_, _)
descend(result, parts) ==
    IF parts = <<>> THEN result
    ELSE IF IsMap(result) THEN descend(DictGet(result.map, Head(parts)), Tail(parts))
    ELSE IF IsList(result) /\ isdigit(Head(parts)) THEN
        LET idx == int(Head(parts)) IN
        IF 0 <= idx /\ idx < Len(result.list)
        THEN descend(result.list[idx + 1], Tail(parts))
        ELSE None
    ELSE None

\* _resolve_single_value returning the row's value without the strip() test.
_resolve_single_value_NoStrip(value, context) ==
    IF IsStr(value) /\ startswith(value.str, <<"@">>) THEN
        LET column_name == SliceFrom(value.str, 1) IN
        IF /\ K_iteration_row \in DOMAIN context
           /\ column_name \in DOMAIN context[K_iteration_row].map
           /\ Truthy(context[K_iteration_row].map[column_name])
        THEN context[K_iteration_row].map[column_name]
        ELSE None
    ELSE IF IsStr(value) THEN
        LET s == value.str IN
        IF startswith(s, <<"$", "{">>) /\ endswith(s, <<"}">>) THEN
            LET var_name == SliceInner(s, 2) IN
            IF "." \in Range(var_name) THEN
                LET parts == split(var_name)
                    result == DictGet(context, parts[1])
                IN  IF Truthy(result) THEN descend(result, Tail(parts)) ELSE None
            ELSE IF var_name \in DOMAIN context /\ context[var_name] # None
                 THEN context[var_name]
                 ELSE None
        ELSE IF s # <<>> /\ strip(s) # <<>> THEN value ELSE None
    ELSE IF value # None THEN value
    ELSE None

\* JSONSequenceLoader._resolve_single_value: the resolved leaf, or None
_resolve_single_value(value, context) ==
    IF IsStr(value) THEN
        LET s == value.str IN
        IF startswith(s, <<"@">>) THEN
            LET column_name == SliceFrom(s, 1) IN
            IF /\ K_iteration_row \in DOMAIN context
               /\ column_name \in DOMAIN context[K_iteration_row].map
            THEN LET resolved_value == context[K_iteration_row].map[column_name] IN
                 IF Truthy(resolved_value) /\ strip(resolved_value.str) # <<>>
                 THEN resolved_value
                 ELSE None
            ELSE None
        ELSE IF startswith(s, <<"$", "{">>) /\ endswith(s, <<"}">>) THEN
            LET var_name == SliceInner(s, 2) IN
            IF "." \in Range(var_name) THEN
                LET parts == split(var_name)
                    result == DictGet(context, parts[1])
                IN  IF Truthy(result) THEN descend(result, Tail(parts)) ELSE None
            ELSE IF var_name \in DOMAIN context /\ context[var_name] # None
                 THEN context[var_name]
                 ELSE None
        ELSE IF s # <<>> /\ strip(s) # <<>> THEN value ELSE None
    ELSE IF value # None THEN value
    ELSE None

\* JSONSequenceLoader.resolve_variables: a new mapping; a leaf that resolves
\* to None has no key, a list keeps its positions
RECURSIVE resolve_variables(_, _)
resolve_variables(params, context) ==
    LET resolved_of(key) ==
            LET value == params[key] IN
            IF IsMap(value) THEN VMap(resolve_variables(value.map, context))
            ELSE IF IsList(value) THEN
                VList([k \in 1..Len(value.list) |->
                        IF IsMap(value.list[k])
                        THEN VMap(resolve_variables(value.list[k].map, context))
                        ELSE _resolve_single_value(value.list[k], context)])
            ELSE _resolve_single_value(value, context)
        kept == {key \in DOMAIN params :
                    IsMap(params[key]) \/ IsList(params[key]) \/ resolved_of(key) # None}
    IN  [key \in kept |-> resolved_of(key)]

\* --------------------------------------------------- condition evaluator

DigitOf(n) ==
    CASE n = 0 -> "0" [] n = 1 -> "1" [] n = 2 -> "2" [] n = 3 -> "3" [] n = 4 -> "4"
      [] n = 5 -> "5" [] n = 6 -> "6" [] n = 7 -> "7" [] n = 8 -> "8" [] n = 9 -> "9"

RECURSIVE str_nat(_)
str_nat(n) == IF n < 10 THEN <<DigitOf(n)>> ELSE Append(str_nat(n \div 10), DigitOf(n % 10))

\* str(v): a str is its own text, a number its decimal digits.  The text of
\* a container is abbreviated to its brackets (no condition of the plans
\* below looks for a text inside one).
str(v) ==
    IF IsStr(v) THEN v.str
    ELSE IF IsNum(v) THEN
        (IF v.num < 0 THEN <<"-">> \o str_nat(-v.num) ELSE str_nat(v.num))
    ELSE IF IsMap(v) THEN <<"{", "}">>
    ELSE IF IsList(v) THEN <<"[", "]">>
    ELSE <<"N", "o", "n", "e">>

\* a in b for two strs
IsSubstring(a, b) == \E k \in 0..(Len(b) - Len(a)) : SubSeq(b, k + 1, k + Len(a)) = a

Returned(v) == [raised |-> FALSE, value |-> v]
Raised(e) == [raised |-> TRUE, error |-> e]

\* The comparison at the end of evaluate_condition.
compare(operator, field_value, compare_value) ==
    IF operator = VStr(OP_eq) THEN Returned(field_value = compare_value)
    ELSE IF operator = VStr(OP_ne) THEN Returned(field_value # compare_value)
    ELSE IF operator = VStr(OP_in) THEN
        Returned(IsList(compare_value) /\ field_value \in Range(compare_value.list))
    ELSE IF operator = VStr(OP_not_in) THEN
        Returned(IsList(compare_value) /\ field_value \notin Range(compare_value.list))
    ELSE IF operator = VStr(OP_contains) THEN
        (IF IsStr(compare_value)
         THEN Returned(IsSubstring(compare_value.str, str(field_value)))
         ELSE Raised("TypeError"))
    ELSE Returned(TRUE)

\* evaluate_condition comparing None with the value when the reference of
\* the field resolves to nothing.
evaluate_condition_CompareNone(condition, context) ==
    IF DOMAIN condition = {} THEN Returned(TRUE)
    ELSE
    LET field == DictGet(condition, K_field)
        operator == IF K_operator \in DOMAIN condition
                    THEN condition[K_operator] ELSE VStr(OP_eq)
        value == DictGet(condition, K_value)
        row_has(column_name) ==
            /\ K_iteration_row \in DOMAIN context
            /\ column_name \in DOMAIN context[K_iteration_row].map
        compare_value ==
            IF IsStr(value) /\ startswith(value.str, <<"@">>)
               /\ row_has(SliceFrom(value.str, 1))
            THEN context[K_iteration_row].map[SliceFrom(value.str, 1)]
            ELSE value
    IN  IF ~Truthy(field) THEN Returned(TRUE)
        ELSE IF ~IsStr(field) THEN Raised("AttributeError")
        ELSE IF startswith(field.str, <<"@">>) THEN
            LET column_name == SliceFrom(field.str, 1) IN
            IF row_has(column_name)
            THEN compare(operator, context[K_iteration_row].map[column_name],
                         compare_value)
            ELSE compare(operator, None, compare_value)
        ELSE IF startswith(field.str, <<"$", "{">>) /\ endswith(field.str, <<"}">>) THEN
            compare(operator, DictGet(context, SliceInner(field.str, 2)), compare_value)
        ELSE compare(operator, field, compare_value)

\* JSONSequenceLoader.evaluate_condition: the truth value returned, or the
\* exception raised
evaluate_condition(condition, context) ==
    IF DOMAIN condition = {} THEN Returned(TRUE)
    ELSE
    LET field == DictGet(condition, K_field)
        operator == IF K_operator \in DOMAIN condition
                    THEN condition[K_operator] ELSE VStr(OP_eq)
        value == DictGet(condition, K_value)
        row_has(column_name) ==
            /\ K_iteration_row \in DOMAIN context
            /\ column_name \in DOMAIN context[K_iteration_row].map
        compare_value ==
            IF IsStr(value) /\ startswith(value.str, <<"@">>)
               /\ row_has(SliceFrom(value.str, 1))
            THEN context[K_iteration_row].map[SliceFrom(value.str, 1)]
            ELSE value
    IN  IF ~Truthy(field) THEN Returned(TRUE)
        ELSE IF ~IsStr(field) THEN Raised("AttributeError")
        ELSE IF startswith(field.str, <<"@">>) THEN
            LET column_name == SliceFrom(field.str, 1) IN
            IF row_has(column_name)
            THEN compare(operator, context[K_iteration_row].map[column_name],
                         compare_value)
            ELSE Returned(FALSE)
        ELSE IF startswith(field.str, <<"$", "{">>) /\ endswith(field.str, <<"}">>) THEN
            LET field_value == DictGet(context, SliceInner(field.str, 2)) IN
            IF field_value = None THEN Returned(FALSE)
            ELSE compare(operator, field_value, compare_value)
        ELSE compare(operator, field, compare_value)

\* ----------------------------------------------------- dataset transformer

\* row.get(key) for a key of a join or filter descriptor: the rows' keys are
\* column names, so any key that is not a str finds nothing
RowGet(row, key) == IF IsStr(key) THEN DictGet(row, key.str) ELSE None

\* _apply_join looking the context key up in the global context itself, not
\* in its iteration_row.
_apply_join_ContextKey(dataset, join_config, gc) ==
    LET local_key == DictGet(join_config, K_local_key)
        context_key == DictGet(join_config, K_context_key)
        context_value == RowGet(gc, context_key)
    IN  IF ~Truthy(local_key) \/ ~Truthy(context_key) THEN dataset
        ELSE IF ~Truthy(context_value) THEN dataset
        ELSE SelectSeq(dataset, LAMBDA row : RowGet(row, local_key) = context_value)

\* ProvisioningOrchestrator._apply_join
_apply_join(dataset, join_config, gc) ==
    LET local_key == DictGet(join_config, K_local_key)
        context_key == DictGet(join_config, K_context_key)
        context_value ==
            IF K_iteration_row \in DOMAIN gc
            THEN RowGet(gc[K_iteration_row].map, context_key)
            ELSE None
    IN  IF ~Truthy(local_key) \/ ~Truthy(context_key) THEN dataset
        ELSE IF ~Truthy(context_value) THEN dataset
        ELSE SelectSeq(dataset, LAMBDA row : RowGet(row, local_key) = context_value)

\* One pass of _apply_filter's loop: the clause field -> value_expression
filter_clause(filtered_data, field, value_expression, gc) ==
    IF IsStr(value_expression) /\ startswith(value_expression.str, <<"$", "{">>) THEN
        LET var_name == SliceInner(value_expression.str, 2)
            in_row == IF K_iteration_row \in DOMAIN gc
                      THEN DictGet(gc[K_iteration_row].map, var_name)
                      ELSE None
            filter_value == IF ~Truthy(in_row) THEN DictGet(gc, var_name) ELSE in_row
        IN  IF Truthy(filter_value)
            THEN SelectSeq(filtered_data, LAMBDA row : DictGet(row, field) = filter_value)
            ELSE filtered_data
    ELSE SelectSeq(filtered_data, LAMBDA row : DictGet(row, field) = value_expression)

\* The loop of _apply_filter over the clauses not yet applied; filter_config
\* is a dict, gone through clause after clause.
RECURSIVE filter_loop(_, _, _, _)
filter_loop(filtered_data, filter_config, fields, gc) ==
    IF fields = {} THEN filtered_data
    ELSE LET field == CHOOSE f \in fields : TRUE IN
         filter_loop(filter_clause(filtered_data, field, filter_config[field], gc),
                     filter_config, fields \ {field}, gc)

\* ProvisioningOrchestrator._apply_filter
_apply_filter(dataset, filter_config, gc) ==
    filter_loop(dataset, filter_config, DOMAIN filter_config, gc)

\* ------------------------------------------------------- transport adapter

\* The tenant account id the client was configured with.
account_id == <<"X">>

\* What the remote service answers to call number n: a body that carries n,
\* so that two responses are never confused.
DataBody(n) == VMap(K_d :> VMap(K_i :> VNum(n)))

ErrorsBody == VMap(K_errors :> VList(<<VStr(<<"n", "o">>)>>))

\* The answers to call number n: session.post raises (no response), or a
\* response with a status code and a decoded body.  A run has at most
\* MaxFailures answers that make the call fail.
Replies(n, mayFail) ==
    {[kind |-> "response", status_code |-> 200, body |-> DataBody(n)]}
    \cup (IF mayFail
          THEN {[kind |-> "exception"],
                [kind |-> "response", status_code |-> 200, body |-> ErrorsBody],
                [kind |-> "response", status_code |-> 500, body |-> ErrorsBody]}
          ELSE {})

NoReply == [kind |-> "none"]

\* The error of a log record: a message, or None
Message(m) == [msg |-> m]

\* HTTPLogger.log_request_response: one more record, when logging is enabled
log_request_response(logger, response_data, error) ==
    IF ~logger.enabled THEN logger
    ELSE [logger EXCEPT !.logs = Append(@, [response |-> response_data, error |-> error])]

\* response.json(), or {"raw_text": response.text} when the text does not
\* decode: a reply carries either its decoded body or its text.
response_body_of(reply) ==
    IF "body" \in DOMAIN reply THEN reply.body
    ELSE VMap(K_raw_text :> VStr(reply.text))

\* "errors" in response_body: a key of a mapping, an element of a sequence,
\* a part of a str; any other body raises TypeError
HasErrors(response_body) ==
    IF IsMap(response_body) THEN Returned(K_errors \in DOMAIN response_body.map)
    ELSE IF IsList(response_body)
    THEN Returned(VStr(K_errors) \in Range(response_body.list))
    ELSE IF IsStr(response_body) THEN Returned(IsSubstring(K_errors, response_body.str))
    ELSE Raised("TypeError")

\* CatoGraphQLClient.execute: the body returned or the exception raised, and
\* the arguments of the calls of log_request_response made on the way (none,
\* or one).
execute(reply) ==
    IF reply.kind = "exception"
    THEN [raised |-> TRUE, error |-> "RequestException",
          log |-> <<[response_data |-> [status_code |-> None, body |-> VMap(EmptyDict)],
                     error |-> Message("RequestException")]>>]
    ELSE
    LET response_body == response_body_of(reply)
        response_data == [status_code |-> VNum(reply.status_code), body |-> response_body]
    IN  IF reply.status_code >= 400
        THEN [raised |-> TRUE, error |-> "HTTPError",
              log |-> <<[response_data |-> response_data,
                         error |-> Message("HTTPError")]>>]
        ELSE IF HasErrors(response_body).raised
        THEN [raised |-> TRUE, error |-> "TypeError", log |-> <<>>]
        ELSE IF HasErrors(response_body).value
        THEN IF IsMap(response_body)
             THEN [raised |-> TRUE, error |-> "GraphQL errors",
                   log |-> <<[response_data |-> response_data,
                              error |-> Message("GraphQL errors")]>>]
             ELSE [raised |-> TRUE, error |-> "TypeError", log |-> <<>>]
        ELSE [raised |-> FALSE, value |-> response_body,
              log |-> <<[response_data |-> response_data, error |-> None]>>]

\* The logger after a call of execute.
Logged(logger, out) ==
    IF out.log = <<>> THEN logger
    ELSE log_request_response(logger, out.log[1].response_data, out.log[1].error)

\* ------------------------------------------------------------ single step

\* The record of a step execution; at = <<batch, step position, row>> is the
\* place in the run the record was made for (0: no batch, no row).
SuccessRecord(step, result, params, at) ==
    [step_name |-> step.step_name, operation |-> step.operation,
     status |-> "success", result |-> result, params |-> params, at |-> at]

ErrorRecord(step, error, params, at) ==
    [step_name |-> step.step_name, operation |-> step.operation,
     status |-> "error", error |-> error, params |-> params, at |-> at]

\* _execute_single_step writing store_result_as before the outcome of the call
\* is known (None when the call failed).
_execute_single_step_StoreFirst(step, context, gc, reply, at) ==
    LET params == DictSet(resolve_variables(step.params, context),
                          K_accountId, VStr(account_id))
        out == IF step.graphql_query = <<>>
               THEN [raised |-> TRUE, error |-> "Pas de requete GraphQL"]
               ELSE execute(reply)
        stored == IF step.store_result_as # <<>>
                  THEN DictSet(gc, step.store_result_as,
                               IF out.raised THEN None ELSE out.value)
                  ELSE gc
    IN  IF step.graphql_query = <<>>
        THEN [result |-> ErrorRecord(step, out.error, params, at),
              global_context |-> stored, called |-> FALSE]
        ELSE IF out.raised
        THEN [result |-> ErrorRecord(step, out.error, params, at),
              global_context |-> stored, called |-> TRUE, variables |-> params]
        ELSE [result |-> SuccessRecord(step, out.value, params, at),
              global_context |-> stored, called |-> TRUE, variables |-> params]

\* _execute_single_step injecting the account id only when the resolved
\* params have no accountId of their own.
_execute_single_step_KeepUser(step, context, gc, reply, at) ==
    LET resolved == resolve_variables(step.params, context)
        params == IF K_accountId \in DOMAIN resolved THEN resolved
                  ELSE DictSet(resolved, K_accountId, VStr(account_id))
    IN  IF step.graphql_query = <<>>
        THEN [result |-> ErrorRecord(step, "Pas de requete GraphQL", params, at),
              global_context |-> gc, called |-> FALSE]
        ELSE LET out == execute(reply) IN
             IF out.raised
             THEN [result |-> ErrorRecord(step, out.error, params, at),
                   global_context |-> gc, called |-> TRUE, variables |-> params]
             ELSE [result |-> SuccessRecord(step, out.value, params, at),
                   global_context |->
                       IF step.store_result_as # <<>>
                       THEN DictSet(gc, step.store_result_as, out.value)
                       ELSE gc,
                   called |-> TRUE, variables |-> params]

\* ProvisioningOrchestrator._execute_single_step with the transport's answer:
\* the record returned, the global context afterwards, and the variables of
\* the transport call when one was issued.
_execute_single_step(step, context, gc, reply, at) ==
    LET params == DictSet(resolve_variables(step.params, context),
                          K_accountId, VStr(account_id))
    IN  IF step.graphql_query = <<>>
        THEN [result |-> ErrorRecord(step, "Pas de requete GraphQL", params, at),
              global_context |-> gc, called |-> FALSE]
        ELSE LET out == execute(reply) IN
             IF out.raised
             THEN [result |-> ErrorRecord(step, out.error, params, at),
                   global_context |-> gc, called |-> TRUE, variables |-> params]
             ELSE [result |-> SuccessRecord(step, out.value, params, at),
                   global_context |->
                       IF step.store_result_as # <<>>
                       THEN DictSet(gc, step.store_result_as, out.value)
                       ELSE gc,
                   called |-> TRUE, variables |-> params]

\* --------------------------------------------------------------- the plans

\* A step as load_sequence normalises it, with the defaults of the optional
\* fields.
Step(name, params, query, store, over, file) ==
    [step_name |-> name, operation |-> "mutation", params |-> params,
     wait_seconds |-> 1, store_result_as |-> store, iterate_over |-> over,
     iteration_scope |-> "global", graphql_query |-> query,
     data_source_file |-> file, join_on |-> EmptyDict, filter_by |-> EmptyDict,
     condition |-> EmptyDict]

\* The step with a condition, a join descriptor and a filter descriptor.
Gated(step, condition, join_on, filter_by) ==
    [step EXCEPT !.condition = condition, !.join_on = join_on, !.filter_by = filter_by]

Condition(field, operator, value) ==
    (K_field :> VStr(field)) @@ (K_operator :> VStr(operator)) @@ (K_value :> value)

JoinOn(local_key, context_key) ==
    (K_local_key :> VStr(local_key)) @@ (K_context_key :> VStr(context_key))

At(s) == <<"@">> \o s
Ref(s) == <<"$", "{">> \o s \o <<"}">>

StepCatalogue ==
    { Step("create",
           (K_x :> VStr(<<"k">>)) @@ (K_n :> VStr(At(K_n))) @@ (K_t :> VStr(At(K_t)))
               @@ (K_d :> VMap((K_n :> VStr(At(K_n))) @@ (K_t :> VStr(At(K_t)))))
               @@ (K_accountId :> VStr(<<"u">>)),
           Q_query, N_S, S_empty, S_empty),
      Step("use",
           (K_i :> VStr(Ref(N_S \o <<".">> \o K_d \o <<".">> \o K_i)))
               @@ (K_p :> VStr(Ref(N_S))),
           Q_query, S_empty, S_empty, S_empty),
      Step("each_lan",
           (K_n :> VStr(At(K_n))) @@ (K_t :> VStr(At(K_t)))
               @@ (K_i :> VStr(Ref(N_S \o <<".">> \o K_d \o <<".">> \o K_i)))
               @@ (K_accountId :> VStr(At(K_n))),
           Q_query, N_S, N_lans, F_lans),
      Step("no_query", (K_x :> VStr(<<"k">>)), S_empty, N_T, S_empty, S_empty),
      Step("each_no_query", (K_n :> VStr(At(K_n))), S_empty, N_T, N_lans, F_gone) }

\* The steps of the plans with conditions, joins and filters: a step that
\* runs in the batch of site A, and a step over the lans of the batch's site
\* other than lan M, none of them once T is bound.
GatedCatalogue ==
    { Step("create", (K_x :> VStr(<<"k">>)) @@ (K_n :> VStr(At(K_n))),
           Q_query, N_S, S_empty, S_empty),
      Gated(Step("when", (K_x :> VStr(<<"k">>)), Q_query, N_T, S_empty, S_empty),
            Condition(At(K_n), OP_eq, VStr(<<"A">>)), EmptyDict, EmptyDict),
      Gated(Step("each_when", (K_n :> VStr(At(K_n))), Q_query, S_empty, N_lans, F_lans),
            Condition(At(K_n), OP_ne, VStr(<<"M">>)),
            JoinOn(K_s, K_n),
            (K_n :> VStr(Ref(N_T)))) }

\* The lists of at most n steps of a catalogue.
RECURSIVE StepListsOf(_, _)
StepListsOf(catalogue, n) ==
    IF n = 0 THEN {<<>>}
    ELSE LET shorter == StepListsOf(catalogue, n - 1) IN
         shorter \cup {Append(l, st) : l \in {x \in shorter : Len(x) = n - 1},
                                       st \in catalogue}

StepLists(n) == StepListsOf(StepCatalogue, n)

Plan(master_file, master_source, steps) ==
    [master_data_source |-> master_file, master_iterate_over |-> master_source,
     steps |-> steps]

\* The datasets handed to execute_sequence already loaded: none, or all.
Preloaded == (N_sites :> load_data(F_sites)) @@ (N_lans :> load_data(F_lans))

\* The master iteration descriptors of the plans load_sequence can return,
\* each with the datasets already loaded when execute_sequence is called.
Settings ==
    { <<S_empty, S_empty, EmptyDict>>, <<S_empty, S_empty, Preloaded>>,
      <<F_sites, N_sites, EmptyDict>>, <<S_empty, N_sites, Preloaded>>,
      <<S_empty, N_sites, EmptyDict>>, <<F_gone, N_sites, EmptyDict>> }

\* Those of the plans with conditions, joins and filters: no master
\* iteration, and master iteration over the sites.
GatedSettings ==
    { <<S_empty, S_empty, EmptyDict>>, <<F_sites, N_sites, EmptyDict>> }

\* ------------------------------------------------------------ orchestrator

VARIABLES
    sequence,        \* the plan being executed
    data_sources,    \* dataset name -> list of records
    global_context,  \* self.global_context
    results,         \* execute_sequence's results
    batch_results,   \* _execute_steps's results
    step_results,    \* _execute_iteration's results
    master_dataset,  \* the list execute_sequence iterates over
    master_idx,      \* idx of the batch in progress (0: none)
    i,               \* position of the step in progress in _execute_steps
    dataset,         \* the list _execute_iteration iterates over
    idx,             \* rows of dataset already processed
    pc,              \* the position of the run: start, batch, steps, iter, done, fatal, ...
    calls,           \* the transport calls issued, in order
    failures,        \* the calls the remote service has failed
    http_logger,     \* the HTTPLogger: enabled, logs
    output_dir,      \* the files written: name -> content
    document,        \* the JSON document of the sequence file
    params,          \* the mapping the resolver returned last
    sleeps,          \* the calls of time.sleep, in order
    verdict          \* what evaluate_condition returned or raised last

\* The state outside execute_sequence, and the sleeps, which only the
\* execution of a step or of a row adds to.
outside == <<output_dir, document, params, sleeps, verdict>>

vars == <<sequence, data_sources, global_context, results, batch_results,
          step_results, master_dataset, master_idx, i, dataset, idx, pc,
          calls, failures, http_logger, output_dir, document, params, sleeps,
          verdict>>

\* The orchestrator, the transport and the files before execute_sequence.
Constructed ==
    /\ results = <<>>
    /\ batch_results = <<>>
    /\ step_results = <<>>
    /\ master_dataset = <<>>
    /\ master_idx = 0
    /\ i = 0
    /\ dataset = <<>>
    /\ idx = 0
    /\ calls = <<>>
    /\ failures = 0
    /\ output_dir = EmptyDict
    /\ params = EmptyDict
    /\ sleeps = <<>>
    /\ verdict = None

Init ==
    /\ \E m \in Settings, l \in StepLists(MaxSteps) \ {<<>>} :
           /\ sequence = Plan(m[1], m[2], l)
           /\ data_sources = m[3]
    /\ global_context = EmptyDict
    /\ Constructed
    /\ http_logger = [enabled |-> TRUE, logs |-> <<>>]
    /\ document = None
    /\ pc = "start"

\* The plans with conditions, joins and filters.
InitGated ==
    /\ \E m \in GatedSettings, l \in StepListsOf(GatedCatalogue, MaxSteps) \ {<<>>} :
           /\ sequence = Plan(m[1], m[2], l)
           /\ data_sources = m[3]
    /\ global_context = EmptyDict
    /\ Constructed
    /\ http_logger = [enabled |-> TRUE, logs |-> <<>>]
    /\ document = None
    /\ pc = "start"

\* batch_context rebinding the two reserved keys in the context of the
\* batch before, whose other keys stay.
batch_context_Rebind(gc, master_row, n) ==
    DictSet(DictSet(gc, K_iteration_row, VMap(master_row)), K_iteration_index, VNum(n))

\* The global context a master batch starts with.
batch_context(gc, master_row, n) ==
    (K_iteration_row :> VMap(master_row)) @@ (K_iteration_index :> VNum(n))

\* The context of one row of an iterating step: a copy of the global context
\* with the row and its index bound.
iteration_context(gc, row, n) ==
    DictSet(DictSet(gc, K_iteration_row, VMap(row)), K_iteration_index, VNum(n))

\* iterate_row whose store_result_as goes to the row's copy of the context,
\* which the next row does not see.
iterate_row_StoreInCopy(step, gc, row, n, reply, at) ==
    [_execute_single_step(step, iteration_context(gc, row, n), gc, reply, at)
        EXCEPT !.global_context = gc]

\* iterate_row binding the row in the global context itself, not in a copy.
iterate_row_NoCopy(step, gc, row, n, reply, at) ==
    _execute_single_step(step, iteration_context(gc, row, n),
                         iteration_context(gc, row, n), reply, at)

\* One pass of _execute_iteration's loop body for a row that is executed.
iterate_row(step, gc, row, n, reply, at) ==
    LET r == _execute_single_step(step, iteration_context(gc, row, n), gc, reply, at)
    IN  [r EXCEPT !.global_context =
            IF r.result.status = "success" /\ step.store_result_as # <<>>
            THEN DictSet(r.global_context, step.store_result_as, r.result.result)
            ELSE r.global_context]

\* The condition of a step, evaluated when the step carries one.
gate(step, context) ==
    IF step.condition # EmptyDict
    THEN evaluate_condition(step.condition, context)
    ELSE Returned(TRUE)

\* step_gate evaluating the condition of every step, iterating or not, against
\* the global context.
step_gate_AnyStep(step, gc) == gate(step, gc)

\* The condition _execute_steps evaluates at step level: that of a step
\* that does not iterate.
step_gate(step, gc) ==
    IF step.iterate_over = <<>> THEN gate(step, gc) ELSE Returned(TRUE)

\* row_gate evaluating the condition against the global context, in which
\* the row is not bound.
row_gate_GlobalContext(step, gc, row, n) == gate(step, gc)

\* The condition _execute_iteration evaluates for a row, against the row's
\* iteration context.
row_gate(step, gc, row, n) == gate(step, iteration_context(gc, row, n))

\* The data sources after _execute_steps has loaded the step's file, when
\* the step names one that exists.
load_step_file(step, sources) ==
    IF step.data_source_file # <<>> /\ PathExists(step.data_source_file)
    THEN DictSet(sources, step.iterate_over, load_data(step.data_source_file))
    ELSE sources

\* The dataset _execute_iteration iterates over: that of the step, joined,
\* then filtered.
iteration_dataset(step, sources, gc) ==
    LET joined == IF step.join_on # EmptyDict
                  THEN _apply_join(sources[step.iterate_over], step.join_on, gc)
                  ELSE sources[step.iterate_over]
    IN  IF step.filter_by # EmptyDict
        THEN _apply_filter(joined, step.filter_by, gc)
        ELSE joined

\* The transport's record of a call.
Call(at, query, r, reply) ==
    [at |-> at, query |-> query, variables |-> r.variables, reply |-> reply]

Failed(reply) == reply.kind # "none" /\ execute(reply).raised

\* The answers the remote service may give to the next call of this step;
\* a step without a query issues no call.
NextReplies(step) ==
    IF step.graphql_query = <<>> THEN {NoReply}
    ELSE Replies(Len(calls) + 1, failures < MaxFailures)

Transport(step, r, reply, at) ==
    /\ calls' = IF r.called THEN Append(calls, Call(at, step.graphql_query, r, reply))
                ELSE calls
    /\ failures' = IF Failed(reply) THEN failures + 1 ELSE failures
    /\ http_logger' = IF r.called THEN Logged(http_logger, execute(reply))
                      ELSE http_logger

\* time.sleep(seconds) after the execution at a place, when the code's
\* condition for it holds.
Sleep(condition, at, seconds) ==
    sleeps' = IF condition THEN Append(sleeps, [at |-> at, seconds |-> seconds])
              ELSE sleeps

\* execute_sequence with master_iterate_over: load the master dataset, and
\* raise when it is not there.
ExecuteSequenceMaster ==
    /\ pc = "start"
    /\ sequence.master_iterate_over # <<>>
    /\ LET master_source == sequence.master_iterate_over
           master_file == sequence.master_data_source
           loaded == IF master_file # <<>> /\ PathExists(master_file)
                     THEN DictSet(data_sources, master_source, load_data(master_file))
                     ELSE data_sources
       IN  /\ data_sources' = loaded
           /\ IF master_source \notin DOMAIN loaded
              THEN pc' = "fatal" /\ UNCHANGED master_dataset
              ELSE pc' = "batch" /\ master_dataset' = loaded[master_source]
    /\ UNCHANGED <<sequence, global_context, results, batch_results, step_results,
                   master_idx, i, dataset, idx, calls, failures, http_logger, outside>>

\* execute_sequence without master iteration: the step list runs once.
ExecuteSequencePlain ==
    /\ pc = "start"
    /\ sequence.master_iterate_over = <<>>
    /\ pc' = "steps"
    /\ i' = 1
    /\ batch_results' = <<>>
    /\ UNCHANGED <<sequence, data_sources, global_context, results, step_results,
                   master_dataset, master_idx, dataset, idx, calls, failures,
                   http_logger, outside>>

\* The head of the master loop: the next batch starts with its context.
BeginBatch ==
    /\ pc = "batch"
    /\ master_idx < Len(master_dataset)
    /\ master_idx' = master_idx + 1
    /\ global_context' =
           batch_context(global_context, master_dataset[master_idx + 1], master_idx + 1)
    /\ pc' = "steps"
    /\ i' = 1
    /\ batch_results' = <<>>
    /\ UNCHANGED <<sequence, data_sources, results, step_results, master_dataset,
                   dataset, idx, calls, failures, http_logger, outside>>

\* The master loop is over: execute_sequence returns results.
ReturnResults ==
    /\ pc = "batch"
    /\ master_idx = Len(master_dataset)
    /\ pc' = "done"
    /\ UNCHANGED <<sequence, data_sources, global_context, results, batch_results,
                   step_results, master_dataset, master_idx, i, dataset, idx,
                   calls, failures, http_logger, outside>>

\* ExecuteStepSingle letting the exception of a failed call leave
\* _execute_steps.
ExecuteStepSingle_Raise ==
    /\ pc = "steps"
    /\ i <= Len(sequence.steps)
    /\ sequence.steps[i].iterate_over = <<>>
    /\ LET step == sequence.steps[i]
           at == <<master_idx, i, 0>>
           passes == step_gate(step, global_context)
       IN  IF passes.raised
           THEN /\ pc' = "fatal"
                /\ UNCHANGED <<global_context, batch_results, i, calls, failures,
                               http_logger, sleeps>>
           ELSE IF ~passes.value
           THEN /\ i' = i + 1
                /\ UNCHANGED <<global_context, batch_results, pc, calls, failures,
                               http_logger, sleeps>>
           ELSE \E reply \in NextReplies(step) :
               LET r == _execute_single_step(step, global_context, global_context,
                                             reply, at)
               IN  /\ global_context' = r.global_context
                   /\ Transport(step, r, reply, at)
                   /\ IF r.result.status = "error"
                      THEN pc' = "fatal" /\ UNCHANGED <<batch_results, i, sleeps>>
                      ELSE /\ batch_results' = Append(batch_results, r.result)
                           /\ Sleep(step.wait_seconds > 0, at, step.wait_seconds)
                           /\ i' = i + 1
                           /\ UNCHANGED pc
    /\ UNCHANGED <<sequence, data_sources, results, step_results, master_dataset,
                   master_idx, dataset, idx, output_dir, document, params, verdict>>

\* ExecuteStepSingle writing the resolved params, with the account id, into
\* the step of the plan.
ExecuteStepSingle_InjectInPlan ==
    /\ pc = "steps"
    /\ i <= Len(sequence.steps)
    /\ sequence.steps[i].iterate_over = <<>>
    /\ LET step == sequence.steps[i]
           at == <<master_idx, i, 0>>
           passes == step_gate(step, global_context)
       IN  IF passes.raised
           THEN /\ pc' = "fatal"
                /\ UNCHANGED <<sequence, global_context, batch_results, i, calls,
                               failures, http_logger, sleeps>>
           ELSE IF ~passes.value
           THEN /\ i' = i + 1
                /\ UNCHANGED <<sequence, global_context, batch_results, pc, calls,
                               failures, http_logger, sleeps>>
           ELSE \E reply \in NextReplies(step) :
               LET r == _execute_single_step(step, global_context, global_context,
                                             reply, at)
               IN  /\ global_context' = r.global_context
                   /\ sequence' = [sequence EXCEPT !.steps[i].params = r.result.params]
                   /\ batch_results' = Append(batch_results, r.result)
                   /\ Transport(step, r, reply, at)
                   /\ Sleep(step.wait_seconds > 0, at, step.wait_seconds)
                   /\ i' = i + 1
                   /\ UNCHANGED pc
    /\ UNCHANGED <<data_sources, results, step_results, master_dataset,
                   master_idx, dataset, idx, output_dir, document, params, verdict>>

\* _execute_steps, a step that does not iterate: skipped when its condition
\* is false, executed once otherwise.
ExecuteStepSingle ==
    /\ pc = "steps"
    /\ i <= Len(sequence.steps)
    /\ sequence.steps[i].iterate_over = <<>>
    /\ LET step == sequence.steps[i]
           at == <<master_idx, i, 0>>
           passes == step_gate(step, global_context)
       IN  IF passes.raised
           THEN /\ pc' = "fatal"
                /\ UNCHANGED <<global_context, batch_results, i, calls, failures,
                               http_logger, sleeps>>
           ELSE IF ~passes.value
           THEN /\ i' = i + 1
                /\ UNCHANGED <<global_context, batch_results, pc, calls, failures,
                               http_logger, sleeps>>
           ELSE \E reply \in NextReplies(step) :
               LET r == _execute_single_step(step, global_context, global_context,
                                             reply, at)
               IN  /\ global_context' = r.global_context
                   /\ batch_results' = Append(batch_results, r.result)
                   /\ Transport(step, r, reply, at)
                   /\ Sleep(step.wait_seconds > 0, at, step.wait_seconds)
                   /\ i' = i + 1
                   /\ UNCHANGED pc
    /\ UNCHANGED <<sequence, data_sources, results, step_results, master_dataset,
                   master_idx, dataset, idx, output_dir, document, params, verdict>>

\* ExecuteStepIterate passing over a step whose dataset is not loaded.
ExecuteStepIterate_SkipMissing ==
    /\ pc = "steps"
    /\ i <= Len(sequence.steps)
    /\ sequence.steps[i].iterate_over # <<>>
    /\ LET step == sequence.steps[i]
           loaded == load_step_file(step, data_sources)
           passes == step_gate(step, global_context)
       IN  /\ data_sources' = loaded
           /\ IF passes.raised
              THEN /\ pc' = "fatal"
                   /\ UNCHANGED <<i, dataset, idx, step_results>>
              ELSE IF \/ ~passes.value
                      \/ step.iterate_over \notin DOMAIN loaded
                      \/ Len(iteration_dataset(step, loaded, global_context)) = 0
              THEN /\ i' = i + 1
                   /\ UNCHANGED <<pc, dataset, idx, step_results>>
              ELSE /\ pc' = "iter"
                   /\ dataset' = iteration_dataset(step, loaded, global_context)
                   /\ idx' = 0
                   /\ step_results' = <<>>
                   /\ UNCHANGED i
    /\ UNCHANGED <<sequence, global_context, results, batch_results, master_dataset,
                   master_idx, calls, failures, http_logger, outside>>

\* _execute_steps, a step that iterates: load its file when it exists, then
\* _execute_iteration up to its loop (raise when the dataset is not loaded;
\* join, then filter; return when no row is left).
ExecuteStepIterate ==
    /\ pc = "steps"
    /\ i <= Len(sequence.steps)
    /\ sequence.steps[i].iterate_over # <<>>
    /\ LET step == sequence.steps[i]
           loaded == load_step_file(step, data_sources)
           passes == step_gate(step, global_context)
       IN  /\ data_sources' = loaded
           /\ IF passes.raised \/ step.iterate_over \notin DOMAIN loaded
              THEN /\ pc' = "fatal"
                   /\ UNCHANGED <<i, dataset, idx, step_results>>
              ELSE IF \/ ~passes.value
                      \/ Len(iteration_dataset(step, loaded, global_context)) = 0
              THEN /\ i' = i + 1
                   /\ UNCHANGED <<pc, dataset, idx, step_results>>
              ELSE /\ pc' = "iter"
                   /\ dataset' = iteration_dataset(step, loaded, global_context)
                   /\ idx' = 0
                   /\ step_results' = <<>>
                   /\ UNCHANGED i
    /\ UNCHANGED <<sequence, global_context, results, batch_results, master_dataset,
                   master_idx, calls, failures, http_logger, outside>>

\* IterateRow executing the row again after a failed call.
IterateRow_Retry ==
    /\ pc = "iter"
    /\ idx < Len(dataset)
    /\ LET step == sequence.steps[i]
           at == <<master_idx, i, idx + 1>>
           passes == row_gate(step, global_context, dataset[idx + 1], idx + 1)
       IN  IF passes.raised
           THEN /\ pc' = "fatal"
                /\ UNCHANGED <<global_context, step_results, idx, calls, failures,
                               http_logger, sleeps>>
           ELSE IF ~passes.value
           THEN /\ idx' = idx + 1
                /\ UNCHANGED <<global_context, step_results, pc, calls, failures,
                               http_logger, sleeps>>
           ELSE \E reply \in NextReplies(step) :
               LET r == iterate_row(step, global_context, dataset[idx + 1], idx + 1,
                                    reply, at)
               IN  /\ global_context' = r.global_context
                   /\ step_results' = Append(step_results, r.result)
                   /\ Transport(step, r, reply, at)
                   /\ Sleep(/\ r.result.status = "success"
                            /\ idx + 1 < Len(dataset)
                            /\ step.wait_seconds > 0,
                            at, step.wait_seconds)
                   /\ idx' = IF r.result.status = "error" THEN idx ELSE idx + 1
                   /\ UNCHANGED pc
    /\ UNCHANGED <<sequence, data_sources, results, batch_results, master_dataset,
                   master_idx, i, dataset, output_dir, document, params, verdict>>

\* One row of _execute_iteration's loop: skipped when the step's condition
\* is false for the row, executed otherwise.
IterateRow ==
    /\ pc = "iter"
    /\ idx < Len(dataset)
    /\ LET step == sequence.steps[i]
           at == <<master_idx, i, idx + 1>>
           passes == row_gate(step, global_context, dataset[idx + 1], idx + 1)
       IN  IF passes.raised
           THEN /\ pc' = "fatal"
                /\ UNCHANGED <<global_context, step_results, idx, calls, failures,
                               http_logger, sleeps>>
           ELSE IF ~passes.value
           THEN /\ idx' = idx + 1
                /\ UNCHANGED <<global_context, step_results, pc, calls, failures,
                               http_logger, sleeps>>
           ELSE \E reply \in NextReplies(step) :
               LET r == iterate_row(step, global_context, dataset[idx + 1], idx + 1,
                                    reply, at)
               IN  /\ global_context' = r.global_context
                   /\ step_results' = Append(step_results, r.result)
                   /\ Transport(step, r, reply, at)
                   /\ Sleep(/\ r.result.status = "success"
                            /\ idx + 1 < Len(dataset)
                            /\ step.wait_seconds > 0,
                            at, step.wait_seconds)
                   /\ idx' = idx + 1
                   /\ UNCHANGED pc
    /\ UNCHANGED <<sequence, data_sources, results, batch_results, master_dataset,
                   master_idx, i, dataset, output_dir, document, params, verdict>>

\* _execute_iteration returns; _execute_steps extends its results.
EndIteration ==
    /\ pc = "iter"
    /\ idx = Len(dataset)
    /\ batch_results' = batch_results \o step_results
    /\ pc' = "steps"
    /\ i' = i + 1
    /\ UNCHANGED <<sequence, data_sources, global_context, results, step_results,
                   master_dataset, master_idx, dataset, idx, calls, failures,
                   http_logger, outside>>

\* EndSteps putting the batch's records in front of those of the batches before.
EndSteps_Prepend ==
    /\ pc = "steps"
    /\ i > Len(sequence.steps)
    /\ IF sequence.master_iterate_over # <<>>
       THEN results' = batch_results \o results /\ pc' = "batch"
       ELSE results' = batch_results /\ pc' = "done"
    /\ UNCHANGED <<sequence, data_sources, global_context, batch_results,
                   step_results, master_dataset, master_idx, i, dataset, idx,
                   calls, failures, http_logger, outside>>

\* _execute_steps returns; execute_sequence takes its results.
EndSteps ==
    /\ pc = "steps"
    /\ i > Len(sequence.steps)
    /\ IF sequence.master_iterate_over # <<>>
       THEN results' = results \o batch_results /\ pc' = "batch"
       ELSE results' = batch_results /\ pc' = "done"
    /\ UNCHANGED <<sequence, data_sources, global_context, batch_results,
                   step_results, master_dataset, master_idx, i, dataset, idx,
                   calls, failures, http_logger, outside>>

Next ==
    \/ ExecuteSequenceMaster
    \/ ExecuteSequencePlain
    \/ BeginBatch
    \/ ReturnResults
    \/ ExecuteStepSingle
    \/ ExecuteStepIterate
    \/ IterateRow
    \/ EndIteration
    \/ EndSteps

Spec == Init /\ [][Next]_vars

SpecGated == InitGated /\ [][Next]_vars

\* ------------------------------------------------- the resolver on its own

\* The leaves of the params trees: the three reference forms, literals,
\* empty and blank strs, a number and null.
Leaves ==
    { VStr(At(K_n)), VStr(At(K_t)), VStr(Ref(N_S)),
      VStr(Ref(N_S \o <<".">> \o K_d)), VStr(Ref(N_S \o <<".">> \o K_d \o <<".">> \o K_i)),
      VStr(Ref(N_S \o <<".">> \o K_d \o <<".">> \o K_n)),
      VStr(<<"k">>), VStr(<<>>), VStr(<<" ">>), VNum(1), None }

\* A leaf under a key, in a nested mapping, in a list beside a mapping, and
\* in a list inside a list.
ParamsTrees ==
    {(K_x :> v) : v \in Leaves}
    \cup {(K_x :> VStr(<<"k">>)) @@ (K_d :> VMap(K_p :> v)) : v \in Leaves}
    \cup {(K_p :> VList(<<v, VMap(K_x :> v)>>)) : v \in Leaves}
    \cup {(K_p :> VList(<<VList(<<v>>), v>>)) : v \in Leaves}

\* The response bodies a step may have stored under S: an id that is a
\* number, an empty str, null, or a str that reads as a reference.
StoredBodies ==
    { VMap(K_d :> VMap((K_i :> v) @@ (K_n :> VStr(<<"A">>)))) :
        v \in {VNum(1), VStr(<<>>), None, VStr(At(K_n)), VStr(Ref(N_S))} }

\* The rows of a CSV file: plain fields, and a field that reads as a reference.
Rows ==
    { (K_n :> VStr(<<"A">>)) @@ (K_t :> VStr(<<" ">>)),
      (K_n :> VStr(At(K_t))) @@ (K_t :> VStr(<<"u">>)) }

\* The contexts a step is resolved in: empty, a row bound, a body stored.
Contexts ==
    {EmptyDict}
    \cup {iteration_context(EmptyDict, row, 1) : row \in Rows}
    \cup {(N_S :> body) : body \in StoredBodies}
    \cup {iteration_context((N_S :> body), row, 1) : row \in Rows, body \in StoredBodies}

InitResolve ==
    /\ \E tree \in ParamsTrees :
           sequence = Plan(S_empty, S_empty,
                           <<Step("resolve", tree, Q_query, S_empty, S_empty, S_empty)>>)
    /\ \E context \in Contexts : global_context = context
    /\ data_sources = EmptyDict
    /\ Constructed
    /\ http_logger = [enabled |-> TRUE, logs |-> <<>>]
    /\ document = None
    /\ pc = "resolve"

\* _execute_single_step's first statement: the step's params resolved
\* against the context.
Resolve ==
    /\ pc = "resolve"
    /\ params' = resolve_variables(sequence.steps[1].params, global_context)
    /\ pc' = "resolved"
    /\ UNCHANGED <<sequence, data_sources, global_context, results, batch_results,
                   step_results, master_dataset, master_idx, i, dataset, idx,
                   calls, failures, http_logger, output_dir, document, sleeps, verdict>>

\* The resolver applied to what it returned, against the same context.
ResolveAgain ==
    /\ pc = "resolved"
    /\ params' = resolve_variables(params, global_context)
    /\ pc' = "resolved again"
    /\ UNCHANGED <<sequence, data_sources, global_context, results, batch_results,
                   step_results, master_dataset, master_idx, i, dataset, idx,
                   calls, failures, http_logger, output_dir, document, sleeps, verdict>>

NextResolve == Resolve \/ ResolveAgain

SpecResolve == InitResolve /\ [][NextResolve]_vars

\* ------------------------------------- the dataset transformer on its own

Lan(n, site) == (K_n :> VStr(n)) @@ (K_s :> VStr(site))

\* The datasets of an iterating step: lans of two sites, twice the same
\* record, records without the column s.
Datasets ==
    { << Lan(<<"L">>, <<"A">>), Lan(<<"M">>, <<"B">>), Lan(<<"N">>, <<"A">>) >>,
      << Lan(<<"L">>, <<"A">>), Lan(<<"L">>, <<"A">>) >>,
      << (K_n :> VStr(<<"M">>)), Lan(<<"L">>, <<"B">>) @@ (K_t :> VStr(<<"A">>)) >> }

\* The join descriptors: none, on the site's name, on a column the master
\* record may lack, with an empty key, with a key missing.
JoinConfigs ==
    { EmptyDict, JoinOn(K_s, K_n), JoinOn(K_s, K_t), JoinOn(K_t, K_n),
      JoinOn(S_empty, K_n), JoinOn(K_s, S_empty), (K_local_key :> VStr(K_s)) }

\* The filter descriptors: none, a reference, a literal, a reference to a
\* stored name, a reference without its closing brace, two clauses.
FilterConfigs ==
    { EmptyDict,
      (K_s :> VStr(Ref(K_n))),
      (K_s :> VStr(<<"A">>)),
      (K_n :> VStr(<<"L">>)),
      (K_s :> VStr(Ref(N_T))),
      (K_s :> VStr(<<"$", "{", "n">>)),
      (K_s :> VStr(Ref(K_n))) @@ (K_n :> VStr(<<"L">>)) }

\* The global contexts of an iterating step: outside a master batch, in the
\* batch of a site, of a site with more columns, with a field left empty by
\* the caller's dataset, and with a name stored.
DatasetContexts ==
    { EmptyDict,
      batch_context(EmptyDict, (K_n :> VStr(<<"A">>)), 1),
      batch_context(EmptyDict, (K_n :> VStr(<<"B">>)) @@ (K_t :> VStr(<<"A">>)), 2),
      batch_context(EmptyDict, (K_n :> VStr(<<>>)), 1),
      (N_T :> VStr(<<"B">>)),
      DictSet(batch_context(EmptyDict, (K_n :> VStr(<<"A">>)), 1), N_T, DataBody(1)) }

InitDataset ==
    /\ \E join_on \in JoinConfigs, filter_by \in FilterConfigs :
           sequence = Plan(S_empty, S_empty,
                           <<Gated(Step("each", EmptyDict, Q_query, S_empty, N_lans, S_empty),
                                   EmptyDict, join_on, filter_by)>>)
    /\ \E rows \in Datasets : data_sources = (N_lans :> rows)
    /\ \E context \in DatasetContexts : global_context = context
    /\ Constructed
    /\ http_logger = [enabled |-> TRUE, logs |-> <<>>]
    /\ document = None
    /\ pc = "lookup"

\* _execute_iteration: the dataset of the step, by name.
LookupDataset ==
    /\ pc = "lookup"
    /\ IF sequence.steps[1].iterate_over \notin DOMAIN data_sources
       THEN pc' = "fatal" /\ UNCHANGED dataset
       ELSE pc' = "join" /\ dataset' = data_sources[sequence.steps[1].iterate_over]
    /\ UNCHANGED <<sequence, data_sources, global_context, results, batch_results,
                   step_results, master_dataset, master_idx, i, idx, calls, failures,
                   http_logger, outside>>

\* ApplyJoin removing the records from the list it was given, the one the
\* data sources hold.
ApplyJoin_InPlace ==
    /\ pc = "join"
    /\ dataset' = IF sequence.steps[1].join_on # EmptyDict
                  THEN _apply_join(dataset, sequence.steps[1].join_on, global_context)
                  ELSE dataset
    /\ data_sources' = [data_sources EXCEPT ![sequence.steps[1].iterate_over] = dataset']
    /\ pc' = "filter"
    /\ UNCHANGED <<sequence, global_context, results, batch_results,
                   step_results, master_dataset, master_idx, i, idx, calls, failures,
                   http_logger, outside>>

\* _execute_iteration: the join, when the step has a join descriptor.
ApplyJoin ==
    /\ pc = "join"
    /\ dataset' = IF sequence.steps[1].join_on # EmptyDict
                  THEN _apply_join(dataset, sequence.steps[1].join_on, global_context)
                  ELSE dataset
    /\ pc' = "filter"
    /\ UNCHANGED <<sequence, data_sources, global_context, results, batch_results,
                   step_results, master_dataset, master_idx, i, idx, calls, failures,
                   http_logger, outside>>

\* _execute_iteration: the filter, when the step has a filter descriptor.
ApplyFilter ==
    /\ pc = "filter"
    /\ dataset' = IF sequence.steps[1].filter_by # EmptyDict
                  THEN _apply_filter(dataset, sequence.steps[1].filter_by, global_context)
                  ELSE dataset
    /\ pc' = "loop"
    /\ UNCHANGED <<sequence, data_sources, global_context, results, batch_results,
                   step_results, master_dataset, master_idx, i, idx, calls, failures,
                   http_logger, outside>>

NextDataset == LookupDataset \/ ApplyJoin \/ ApplyFilter

SpecDataset == InitDataset /\ [][NextDataset]_vars

\* ------------------------------------------------------ the client alone

\* The number of calls of execute made on one client.
MaxCalls == 2

\* What response.json() can decode to, and a text that does not decode.
ClientBodies ==
    { [body |-> b] : b \in { DataBody(1), ErrorsBody, VMap(K_errors :> None), None,
                             VNum(3), VList(<<VNum(1)>>), VList(<<VStr(K_errors)>>),
                             VStr(<<"o", "k">>), VStr(K_errors) } }
    \cup { [text |-> <<"<">>] }

\* The answers of session.post: an exception without response, or a
\* response with a status code and a body.
ClientReplies ==
    { [kind |-> "exception"] }
    \cup { [kind |-> "response", status_code |-> c] @@ b :
             c \in {200, 399, 400, 500}, b \in ClientBodies }

\* A client with its logger, enabled or not, and no call made yet.
InitClient ==
    /\ sequence = Plan(S_empty, S_empty, <<>>)
    /\ data_sources = EmptyDict
    /\ global_context = EmptyDict
    /\ Constructed
    /\ \E enabled \in BOOLEAN : http_logger = [enabled |-> enabled, logs |-> <<>>]
    /\ document = None
    /\ pc = "client"

\* One call of CatoGraphQLClient.execute: what it returned or raised, and
\* the logger after it.
Execute ==
    /\ pc = "client"
    /\ Len(calls) < MaxCalls
    /\ \E reply \in ClientReplies :
         LET out == execute(reply) IN
           /\ calls' = Append(calls, [query |-> Q_query, variables |-> EmptyDict,
                                      reply |-> reply, out |-> out])
           /\ http_logger' = Logged(http_logger, out)
    /\ UNCHANGED <<sequence, data_sources, global_context, results, batch_results,
                   step_results, master_dataset, master_idx, i, dataset, idx, pc,
                   failures, outside>>

NextClient == Execute

SpecClient == InitClient /\ [][NextClient]_vars

\* ------------------------------------------------------------------ main

\* dict.get(key, default) of a str-valued key of a document
StrOr(d, key, default) == IF key \in DOMAIN d THEN d[key].str ELSE default

\* dict.get(key, {}) of a mapping-valued key of a document
MapOr(d, key) == IF key \in DOMAIN d THEN d[key].map ELSE EmptyDict

\* The normalised step load_sequence appends for the entry at position of the document.
load_step(step, position) ==
    [step_name |-> StrOr(step, K_step_name, <<"s", "t", "e", "p", "_">> \o str_nat(position)),
     operation |-> step[K_operation].str,
     params |-> MapOr(step, K_params),
     wait_seconds |-> IF K_wait_seconds \in DOMAIN step THEN step[K_wait_seconds].num ELSE 1,
     store_result_as |-> StrOr(step, K_store_result_as, S_empty),
     iterate_over |-> StrOr(step, K_iterate_over, S_empty),
     iteration_scope |-> StrOr(step, K_iteration_scope, <<"g", "l", "o", "b", "a", "l">>),
     graphql_query |-> StrOr(step, K_graphql_query, S_empty),
     data_source_file |-> StrOr(step, K_data_source_file, S_empty),
     join_on |-> MapOr(step, K_join_on),
     filter_by |-> MapOr(step, K_filter_by),
     condition |-> MapOr(step, K_condition)]

\* The loop of load_sequence over the entries of the sequence key: an entry
\* that is no mapping has no get, a disabled entry is passed over, an
\* enabled entry must name its operation.
RECURSIVE load_steps(_, _, _)
load_steps(entries, position, steps) ==
    IF position > Len(entries) THEN Returned(steps)
    ELSE LET step == entries[position] IN
         IF ~IsMap(step) THEN Raised("AttributeError")
         ELSE IF K_enabled \in DOMAIN step.map /\ ~Truthy(step.map[K_enabled])
         THEN load_steps(entries, position + 1, steps)
         ELSE IF K_operation \notin DOMAIN step.map THEN Raised("KeyError")
         ELSE load_steps(entries, position + 1, Append(steps, load_step(step.map, position)))

\* JSONSequenceLoader.load_sequence on the decoded document: the plan
\* returned, or the exception raised.  A document without the sequence key
\* is read as one with an empty list; iterating an empty str or mapping
\* visits nothing, a non-empty one visits strs, and None or a number is
\* not iterable.
load_sequence(data) ==
    IF ~IsMap(data) THEN Raised("AttributeError")
    ELSE
    LET entries == IF K_sequence \in DOMAIN data.map THEN data.map[K_sequence]
                   ELSE VList(<<>>)
        plan(steps) == Plan(StrOr(data.map, K_master_data_source, S_empty),
                            StrOr(data.map, K_master_iterate_over, S_empty), steps)
    IN  IF IsList(entries)
        THEN LET out == load_steps(entries.list, 1, <<>>) IN
             IF out.raised THEN out ELSE Returned(plan(out.value))
        ELSE IF IsStr(entries) \/ IsMap(entries)
        THEN IF Truthy(entries) THEN Raised("AttributeError") ELSE Returned(plan(<<>>))
        ELSE Raised("TypeError")

\* The entries of the sequence documents: a step that stores its result, a
\* step over the lans file, a step whose condition cannot be evaluated once
\* S is bound, a disabled entry and an entry without operation.
DocumentEntries ==
    { VMap((K_operation :> VStr(<<"m">>)) @@ (K_step_name :> VStr(<<"c">>))
           @@ (K_params :> VMap(K_x :> VStr(<<"k">>)))
           @@ (K_graphql_query :> VStr(Q_query)) @@ (K_store_result_as :> VStr(N_S))),
      VMap((K_operation :> VStr(<<"m">>)) @@ (K_params :> VMap(K_n :> VStr(At(K_n))))
           @@ (K_graphql_query :> VStr(Q_query)) @@ (K_iterate_over :> VStr(N_lans))
           @@ (K_data_source_file :> VStr(F_lans))),
      VMap((K_operation :> VStr(<<"m">>)) @@ (K_graphql_query :> VStr(Q_query))
           @@ (K_condition :> VMap(Condition(Ref(N_S), OP_contains, VNum(3))))),
      VMap((K_enabled :> VNum(0))),
      VMap(EmptyDict) }

\* The documents the sequence file may hold: with a list under sequence,
\* with and without a master dataset; without the sequence key; with
\* something else than a list under it; and a document that is a list.
Documents ==
    { VMap((K_sequence :> VList(l)) @@ m) :
        l \in StepListsOf(DocumentEntries, MaxSteps),
        m \in { EmptyDict,
                (K_master_iterate_over :> VStr(N_sites))
                    @@ (K_master_data_source :> VStr(F_sites)) } }
    \cup { VMap(EmptyDict),
           VMap((K_master_iterate_over :> VStr(N_sites))
                    @@ (K_master_data_source :> VStr(F_sites))),
           VMap(K_sequence :> None), VMap(K_sequence :> VNum(3)),
           VMap(K_sequence :> VStr(<<"a", "b">>)), VMap(K_sequence :> VStr(S_empty)),
           VMap(K_sequence :> VMap(EmptyDict)), VList(<<>>) }

\* The files main writes into the output directory.
F_results == <<"r", "e", "s", "u", "l", "t", "s">>
F_http_requests == <<"h", "t", "t", "p">>

\* main before load_sequence: logger and client built, nothing loaded.
InitMain ==
    /\ sequence = Plan(S_empty, S_empty, <<>>)
    /\ data_sources = EmptyDict
    /\ global_context = EmptyDict
    /\ Constructed
    /\ http_logger = [enabled |-> TRUE, logs |-> <<>>]
    /\ document \in Documents
    /\ pc = "main"

\* main: loader.load_sequence(); an exception goes to main's handler.
LoadSequence ==
    /\ pc = "main"
    /\ LET out == load_sequence(document) IN
         IF out.raised
         THEN pc' = "fatal" /\ sequence' = sequence
         ELSE pc' = "start" /\ sequence' = out.value
    /\ UNCHANGED <<data_sources, global_context, results, batch_results,
                   step_results, master_dataset, master_idx, i, dataset, idx,
                   calls, failures, http_logger, outside>>

\* main: orchestrator.save_results(results, results_file)
SaveResults ==
    /\ pc = "done"
    /\ output_dir' = DictSet(output_dir, F_results, results)
    /\ pc' = "saved"
    /\ UNCHANGED <<sequence, data_sources, global_context, results, batch_results,
                   step_results, master_dataset, master_idx, i, dataset, idx,
                   calls, failures, http_logger, document, params, sleeps, verdict>>

\* main: http_logger.save(), which writes only a non-empty log
SaveHttpLog ==
    /\ pc = "saved"
    /\ output_dir' = IF http_logger.enabled /\ http_logger.logs # <<>>
                     THEN DictSet(output_dir, F_http_requests, http_logger.logs)
                     ELSE output_dir
    /\ pc' = "exit"
    /\ UNCHANGED <<sequence, data_sources, global_context, results, batch_results,
                   step_results, master_dataset, master_idx, i, dataset, idx,
                   calls, failures, http_logger, document, params, sleeps, verdict>>

\* main's except Exception: the message is printed and the exception raised
\* again; the process ends without reaching save_results.
MainExcept ==
    /\ pc = "fatal"
    /\ pc' = "exit_fatal"
    /\ UNCHANGED <<sequence, data_sources, global_context, results, batch_results,
                   step_results, master_dataset, master_idx, i, dataset, idx,
                   calls, failures, http_logger, outside>>

\* The interrupt signal between two steps or two iterations:
\* KeyboardInterrupt is no Exception, so neither line 619 nor main's handler
\* catches it and the process ends where it is.
KeyboardInterrupt ==
    /\ (pc = "batch" \/ pc = "steps" \/ pc = "iter")
    /\ pc' = "cancelled"
    /\ UNCHANGED <<sequence, data_sources, global_context, results, batch_results,
                   step_results, master_dataset, master_idx, i, dataset, idx,
                   calls, failures, http_logger, outside>>

NextMain ==
    \/ LoadSequence
    \/ Next
    \/ SaveResults
    \/ SaveHttpLog
    \/ MainExcept
    \/ KeyboardInterrupt

SpecMain == InitMain /\ [][NextMain]_vars

\* ------------------------------------- the condition evaluator on its own

N_Z == <<"Z">>
N_N == <<"N">>
OP_unknown == <<"~">>

\* The fields of the conditions: columns of the row, one of them absent;
\* names of the context, one absent and one bound to null; a literal.
ConditionFields ==
    { VStr(At(K_n)), VStr(At(K_x)), VStr(Ref(N_S)), VStr(Ref(N_Z)), VStr(Ref(N_N)),
      VStr(<<"A">>) }

\* The values of the conditions: strs, a column of the row, null, a number
\* and a sequence.
ConditionValues ==
    { VStr(<<"A">>), VStr(At(K_n)), None, VNum(1),
      VList(<<VStr(<<"A">>), VNum(1)>>) }

\* The condition descriptors: every operator, an unknown one and none, on
\* every field and value; and the descriptors without field.
Conditions ==
    { Condition(field.str, operator, value) :
        field \in ConditionFields,
        operator \in {OP_eq, OP_ne, OP_in, OP_not_in, OP_contains, OP_unknown},
        value \in ConditionValues }
    \cup { (K_field :> field) @@ (K_value :> value) :
             field \in ConditionFields, value \in ConditionValues }
    \cup { EmptyDict, (K_operator :> VStr(OP_ne)) @@ (K_value :> VStr(<<"A">>)) }

\* The contexts a condition is evaluated in: empty, names bound (N to
\* null), and each of them with a row.
ConditionContexts ==
    LET globals == { EmptyDict, (N_S :> VStr(<<"A">>)) @@ (N_N :> None),
                     (N_S :> VNum(1)) }
    IN  globals
        \cup { iteration_context(gc, row, 1) :
                 gc \in globals,
                 row \in { (K_n :> VStr(<<"A">>)), (K_n :> VStr(<<"B">>)) } }

InitCondition ==
    /\ \E condition \in Conditions :
           sequence = Plan(S_empty, S_empty,
                           <<Gated(Step("when", EmptyDict, Q_query, S_empty, S_empty, S_empty),
                                   condition, EmptyDict, EmptyDict)>>)
    /\ \E context \in ConditionContexts : global_context = context
    /\ data_sources = EmptyDict
    /\ Constructed
    /\ http_logger = [enabled |-> TRUE, logs |-> <<>>]
    /\ document = None
    /\ pc = "condition"

\* loader.evaluate_condition(step['condition'], context)
EvaluateCondition ==
    /\ pc = "condition"
    /\ verdict' = evaluate_condition(sequence.steps[1].condition, global_context)
    /\ pc' = "evaluated"
    /\ UNCHANGED <<sequence, data_sources, global_context, results, batch_results,
                   step_results, master_dataset, master_idx, i, dataset, idx,
                   calls, failures, http_logger, output_dir, document, params, sleeps>>

NextCondition == EvaluateCondition

SpecCondition == InitCondition /\ [][NextCondition]_vars

\* ----------------------------------------------------------------- pacing

\* The step with another wait_seconds than the default.
Waiting(step, seconds) == [step EXCEPT !.wait_seconds = seconds]

\* The steps of the plans that show the pacing: steps that wait one second
\* or not at all, a step without query (it fails before the call), and steps
\* over the lans L and M, one of them only for the lans other than M.
PacedCatalogue ==
    { Step("single", (K_x :> VStr(<<"k">>)), Q_query, S_empty, S_empty, S_empty),
      Waiting(Step("single_0", (K_x :> VStr(<<"k">>)), Q_query, S_empty, S_empty, S_empty), 0),
      Step("no_query", (K_x :> VStr(<<"k">>)), S_empty, S_empty, S_empty, S_empty),
      Step("each", (K_n :> VStr(At(K_n))), Q_query, S_empty, N_lans, F_lans),
      Waiting(Step("each_0", (K_n :> VStr(At(K_n))), Q_query, S_empty, N_lans, F_lans), 0),
      Gated(Step("each_but_M", (K_n :> VStr(At(K_n))), Q_query, S_empty, N_lans, F_lans),
            Condition(At(K_n), OP_ne, VStr(<<"M">>)), EmptyDict, EmptyDict) }

InitPacing ==
    /\ \E m \in GatedSettings, l \in StepListsOf(PacedCatalogue, MaxSteps) \ {<<>>} :
           /\ sequence = Plan(m[1], m[2], l)
           /\ data_sources = m[3]
    /\ global_context = EmptyDict
    /\ Constructed
    /\ http_logger = [enabled |-> TRUE, logs |-> <<>>]
    /\ document = None
    /\ pc = "start"

SpecPacing == InitPacing /\ [][Next]_vars

\* The steps of the plans in which executions are counted: a step without
\* query (it fails before the call), a step for the lans other than M, and
\* a step that runs in the batch of site A only.
CountedCatalogue ==
    { Step("no_query", (K_x :> VStr(<<"k">>)), S_empty, S_empty, S_empty, S_empty),
      Gated(Step("each_but_M", (K_n :> VStr(At(K_n))), Q_query, S_empty, N_lans, F_lans),
            Condition(At(K_n), OP_ne, VStr(<<"M">>)), EmptyDict, EmptyDict),
      Gated(Step("when", (K_x :> VStr(<<"k">>)), Q_query, N_T, S_empty, S_empty),
            Condition(At(K_n), OP_eq, VStr(<<"A">>)), EmptyDict, EmptyDict) }

InitCounted ==
    /\ \E m \in GatedSettings, l \in StepListsOf(CountedCatalogue, MaxSteps) \ {<<>>} :
           /\ sequence = Plan(m[1], m[2], l)
           /\ data_sources = m[3]
    /\ global_context = EmptyDict
    /\ Constructed
    /\ http_logger = [enabled |-> TRUE, logs |-> <<>>]
    /\ document = None
    /\ pc = "start"

\* The run goes on as long as it has something to do: the orchestrator is
\* one sequential loop and every step of it returns.
SpecCountedFair == InitCounted /\ [][Next]_vars /\ WF_vars(Next)

\* ------------------------------------------------------ reading the state

\* The records made so far, in the order the run will return them: the
\* lists of the calls in progress are not yet part of results.
Records ==
    IF pc = "steps" THEN results \o batch_results
    ELSE IF pc = "iter" THEN results \o batch_results \o step_results
    ELSE results

\* The records of the execution of the step list in progress.
BatchRecords ==
    IF pc = "steps" THEN batch_results
    ELSE IF pc = "iter" THEN batch_results \o step_results
    ELSE <<>>

StepOf(rec) == sequence.steps[rec.at[2]]

ReservedKeys == {K_iteration_row, K_iteration_index}

\* The body most recently stored under name by the records recs, or None.
RECURSIVE LastStored(_, _)
LastStored(name, recs) ==
    IF recs = <<>> THEN None
    ELSE LET rec == recs[Len(recs)] IN
         IF rec.status = "success" /\ StepOf(rec).store_result_as = name
         THEN rec.result
         ELSE LastStored(name, SubSeq(recs, 1, Len(recs) - 1))

Ats(recs) == [k \in 1..Len(recs) |-> recs[k].at]

\* a < b for two places <<batch, step, row>>
Before(a, b) ==
    \/ a[1] < b[1]
    \/ a[1] = b[1] /\ a[2] < b[2]
    \/ a[1] = b[1] /\ a[2] = b[2] /\ a[3] < b[3]

Increasing(ats) == \A k \in 1..Len(ats) - 1 : Before(ats[k], ats[k + 1])

IsPrefix(a, b) == Len(a) <= Len(b) /\ SubSeq(b, 1, Len(a)) = a

Iterates(step) == step.iterate_over # <<>>

\* ------------------------------------------------------------------ claims

\* C1: a name stored under store_result_as by a successful step of an earlier
\* master batch is still bound to the body stored last while the steps of a
\* later batch run.
C1_StoredNamePersistsAcrossBatches ==
    (pc \in {"steps", "iter"} /\ master_idx >= 2) =>
        \A name \in {N_S, N_T} :
            LET v == LastStored(name, Records) IN
            v # None => name \in DOMAIN global_context /\ global_context[name] = v

\* A step that does not iterate has just been executed and its record says error.
SingleStepFailed ==
    /\ pc = "steps" /\ pc' = "steps" /\ i' = i + 1
    /\ Len(batch_results') = Len(batch_results) + 1
    /\ batch_results'[Len(batch_results')].status = "error"

\* A row of an iterating step has just been executed and its record says error.
RowFailed ==
    /\ pc = "iter" /\ idx' = idx + 1
    /\ Len(step_results') = Len(step_results) + 1
    /\ step_results'[Len(step_results')].status = "error"

\* C2: store-on-success only: an execution of a step, or of one row of an
\* iterating step, that ends with status=error leaves the global context as
\* it was before the execution.
C2_StoreOnSuccessOnly ==
    [][(SingleStepFailed \/ RowFailed) => global_context' = global_context]_vars

\* A failed step and a failed row, each of a step that names store_result_as,
\* have been recorded and neither name is bound.
C2_Witness ==
    \E a, b \in 1..Len(Records) :
        /\ Records[a].status = "error" /\ Records[a].at[3] = 0
        /\ Records[b].status = "error" /\ Records[b].at[3] > 0
        /\ Records[b].error = "GraphQL errors"
        /\ \A k \in {a, b} :
              /\ StepOf(Records[k]).store_result_as # <<>>
              /\ StepOf(Records[k]).store_result_as \notin DOMAIN global_context

T_S_d_i == VStr(Ref(N_S \o <<".">> \o K_d \o <<".">> \o K_i))
T_S == VStr(Ref(N_S))

\* C3: within one execution of the step list, a name stored by a successful
\* step or row is bound in the global context to the body stored last, and a
\* later step or row whose params hold ${S.d.i} or ${S} is executed with the
\* value taken from the body stored last before it.
C3_StoredResultVisibleToLaterSteps ==
    pc \in {"steps", "iter"} =>
        /\ \A name \in {N_S, N_T} :
              LET v == LastStored(name, BatchRecords) IN
              v # None => name \in DOMAIN global_context /\ global_context[name] = v
        /\ \A j \in 1..Len(BatchRecords) :
              LET rec == BatchRecords[j]
                  body == LastStored(N_S, SubSeq(BatchRecords, 1, j - 1))
                  tmpl == StepOf(rec).params
              IN  body # None =>
                      /\ (K_i \in DOMAIN tmpl /\ tmpl[K_i] = T_S_d_i) =>
                            /\ K_i \in DOMAIN rec.params
                            /\ rec.params[K_i] = body.map[K_d].map[K_i]
                      /\ (K_p \in DOMAIN tmpl /\ tmpl[K_p] = T_S) =>
                            /\ K_p \in DOMAIN rec.params
                            /\ rec.params[K_p] = body

\* The first row of an iterating step stored S, its second row was executed
\* with the id of that body and stored S again, and a later step was executed
\* with the body of the second row.
C3_Witness ==
    \E a, b, c \in 1..Len(BatchRecords) :
        /\ a < b /\ b < c
        /\ BatchRecords[a].at[3] = 1 /\ BatchRecords[b].at[3] = 2
        /\ BatchRecords[a].at[2] = BatchRecords[b].at[2]
        /\ BatchRecords[c].at[3] = 0
        /\ BatchRecords[a].status = "success" /\ BatchRecords[b].status = "success"
        /\ StepOf(BatchRecords[a]).store_result_as = N_S
        /\ K_i \in DOMAIN BatchRecords[b].params
        /\ BatchRecords[b].params[K_i] = BatchRecords[a].result.map[K_d].map[K_i]
        /\ K_p \in DOMAIN BatchRecords[c].params
        /\ BatchRecords[c].params[K_p] = BatchRecords[b].result

\* The places <<batch, step, row>> the plan asks to execute.
Batches == IF sequence.master_iterate_over # <<>> THEN 1..Len(master_dataset) ELSE {0}

RowsOf(step) ==
    IF Iterates(step) THEN 1..Len(data_sources[step.iterate_over]) ELSE {0}

\* A step some of whose rows, or whose single execution, the plan may skip.
Gates(step) ==
    step.condition # EmptyDict \/ step.join_on # EmptyDict \/ step.filter_by # EmptyDict

PlacesOf(steps) ==
    UNION { UNION { { <<b, k, r>> : r \in RowsOf(sequence.steps[k]) } : k \in steps }
            : b \in Batches }

\* The places of the steps that carry no condition, join or filter.
ExpectedAts == PlacesOf({k \in 1..Len(sequence.steps) : ~Gates(sequence.steps[k])})

MasterMissing ==
    /\ sequence.master_iterate_over # <<>>
    /\ sequence.master_iterate_over \notin DOMAIN data_sources
    /\ ~(sequence.master_data_source # <<>> /\ PathExists(sequence.master_data_source))

StepDatasetMissing(step) ==
    /\ Iterates(step)
    /\ step.iterate_over \notin DOMAIN data_sources
    /\ ~(step.data_source_file # <<>> /\ PathExists(step.data_source_file))

\* The run has ended in a fatal error only for a missing dataset.
FatalOnlyForMissingDataset ==
    pc = "fatal" =>
        \/ MasterMissing
        \/ i \in 1..Len(sequence.steps) /\ StepDatasetMissing(sequence.steps[i])

\* When the run returns, every batch, step and row of the plan that no
\* condition, join or filter can skip has its record in the results, a
\* failed call with status=error.
ReturnsEveryRecord ==
    pc = "done" =>
        /\ ExpectedAts \subseteq {results[k].at : k \in 1..Len(results)}
        /\ {results[k].at : k \in 1..Len(results)} \subseteq PlacesOf(1..Len(sequence.steps))
        /\ \A c \in 1..Len(calls) :
              execute(calls[c].reply).raised =>
                  \E k \in 1..Len(results) :
                      /\ results[k].at = calls[c].at
                      /\ results[k].status = "error"

\* The transport call of this step of the run failed.
CallFailed == failures' = failures + 1

\* C4: a failed transport call never aborts the run: its error record is
\* appended and the loop moves on to the next row or step; the run ends in a
\* fatal error only for a missing dataset; and when it returns, every batch,
\* step and row of the plan has its record in the results.
C4_StepFailureDoesNotAbort ==
    [][ /\ FatalOnlyForMissingDataset'
        /\ ReturnsEveryRecord'
        /\ CallFailed =>
              /\ pc \in {"steps", "iter"} /\ pc' = pc
              /\ Len(Records') = Len(Records) + 1
              /\ Records'[Len(Records')].status = "error"
              /\ Records'[Len(Records')].at = calls'[Len(calls')].at
              /\ pc = "steps" => i' = i + 1
              /\ pc = "iter" => idx' = idx + 1 /\ i' = i ]_vars

\* The run returned with the record of a failed call on the first row of the
\* first step of the first batch, followed by records of the next row, of
\* the next step and of the next batch.
C4_Witness ==
    /\ pc = "done"
    /\ Len(results) >= 4
    /\ results[1].status = "error"
    /\ results[1].error \in {"RequestException", "GraphQL errors", "HTTPError"}
    /\ results[1].at = <<1, 1, 1>>
    /\ {<<1, 1, 2>>, <<1, 2, 0>>, <<2, 1, 1>>}
          \subseteq {results[k].at : k \in 1..Len(results)}

\* C5: a step whose graphql_query is empty terminates the run: once such a
\* step has been reached, the run has ended in a fatal error.
C5_EmptyQueryTerminatesRun ==
    \A rec \in Range(results) \cup Range(batch_results) \cup Range(step_results) :
        StepOf(rec).graphql_query = <<>> => pc = "fatal"

\* C6: a missing master dataset ends the run in a fatal error before any
\* transport call; an iterating step whose dataset is missing ends it when
\* the step is reached, with no transport call; nothing follows a fatal error.
C6_MissingDatasetIsFatal ==
    [][ /\ (pc = "start" /\ MasterMissing) => (pc' = "fatal" /\ calls' = <<>>)
        /\ (pc = "steps" /\ i <= Len(sequence.steps)
               /\ StepDatasetMissing(sequence.steps[i]))
              => (pc' = "fatal" /\ calls' = calls)
        /\ pc # "fatal" ]_vars

\* The run has ended at its second step, whose dataset is missing, after the
\* transport call of the first.
C6_Witness ==
    /\ pc = "fatal"
    /\ i = 2
    /\ StepDatasetMissing(sequence.steps[i])
    /\ Len(calls) = 1

Called(rec) == StepOf(rec).graphql_query # <<>>

\* The records and the transport calls are in the order batch, step, row,
\* and the calls are those of the records that have one.
InExecutionOrder ==
    /\ Increasing(Ats(results))
    /\ Increasing(Ats(calls))
    /\ pc # "fatal" =>
          /\ Increasing(Ats(Records))
          /\ Ats(calls) = Ats(SelectSeq(Records, Called))

\* C7: order preservation: the results are sorted by (master batch, position
\* of the step, row), the transport calls were issued in that order, and a
\* record once in the results is neither moved nor removed.
C7_OrderPreservation ==
    [][InExecutionOrder' /\ IsPrefix(results, results') /\ IsPrefix(calls, calls')]_vars

\* The run returned the records of two batches of two steps, the second on
\* two rows.
C7_Witness ==
    /\ pc = "done"
    /\ Len(results) = 6
    /\ results[6].at = <<2, 2, 2>>
    /\ results[4].at = <<2, 1, 0>>

\* C8: context isolation: while the step list runs, iteration_row and
\* iteration_index of the global context are the master record and its index
\* (absent without master iteration), whatever rows the iterating steps went
\* through, and a step that does not iterate resolves @n in the master record.
C8_ContextIsolation ==
    /\ pc \in {"steps", "iter"} =>
          IF master_idx > 0
          THEN /\ ReservedKeys \subseteq DOMAIN global_context
               /\ global_context[K_iteration_row] = VMap(master_dataset[master_idx])
               /\ global_context[K_iteration_index] = VNum(master_idx)
          ELSE ReservedKeys \cap DOMAIN global_context = {}
    /\ \A k \in 1..Len(Records) :
          LET rec == Records[k] IN
          (rec.at[3] = 0 /\ K_n \in DOMAIN StepOf(rec).params) =>
              IF rec.at[1] > 0
              THEN /\ K_n \in DOMAIN rec.params
                   /\ rec.params[K_n] = master_dataset[rec.at[1]][K_n]
              ELSE K_n \notin DOMAIN rec.params

\* In a master batch, a step that resolves @n was executed right after the
\* last row of an iterating step.
C8_Witness ==
    /\ pc = "steps"
    /\ master_idx > 0
    /\ \E k \in 1..Len(batch_results) - 1 :
          /\ batch_results[k].at[3] = 2
          /\ batch_results[k + 1].at[3] = 0
          /\ K_n \in DOMAIN batch_results[k + 1].params

\* The place of the transport call that returned body.
WriterOf(body) == calls[body.map[K_d].map[K_i].num].at

\* C9: when the step at position i is about to resolve its params, no name
\* of the global context holds a body stored by a step at a later position,
\* in any master batch.
C9_NoMutationFromLaterStep ==
    (pc \in {"steps", "iter"} /\ i <= Len(sequence.steps)) =>
        \A name \in DOMAIN global_context \ ReservedKeys :
            WriterOf(global_context[name])[2] <= i

\* The first step of the second batch is about to run, and the second step
\* of the first batch stored its result.
C9_Witness ==
    /\ pc = "steps" /\ master_idx = 2 /\ i = 1
    /\ \E k \in 1..Len(results) :
          /\ results[k].at[1] = 1 /\ results[k].at[2] = 2
          /\ results[k].status = "success"
          /\ StepOf(results[k]).store_result_as # <<>>

\* The line of the CSV file behind the iteration_row a record was resolved
\* with: the row of the step's dataset (of the lines that match the master
\* record when the step joins), else the master record, else nothing.
RawRowSeen(at) ==
    IF at[3] > 0 THEN
        IF sequence.steps[at[2]].join_on # EmptyDict /\ at[1] > 0
        THEN SelectSeq(RawLans, LAMBDA line : line[K_s] = RawSites[at[1]][K_n])[at[3]]
        ELSE RawLans[at[3]]
    ELSE IF at[1] > 0 THEN RawSites[at[1]]
    ELSE EmptyDict

Blank(s) == \A k \in 1..Len(s) : s[k] = " "

\* In the mapping resolved from tmpl, at every depth, a key whose template
\* is @col is absent when the field col of the line raw is missing, empty or
\* blank, and bound to the field otherwise.
RECURSIVE OmitsEmpty(_, _, _)
OmitsEmpty(tmpl, resolved, raw) ==
    \A key \in DOMAIN tmpl \ {K_accountId} :
        /\ (IsStr(tmpl[key]) /\ startswith(tmpl[key].str, <<"@">>)) =>
               LET col == Tail(tmpl[key].str) IN
               IF col \notin DOMAIN raw \/ Blank(raw[col])
               THEN key \notin DOMAIN resolved
               ELSE key \in DOMAIN resolved /\ resolved[key] = VStr(raw[col])
        /\ IsMap(tmpl[key]) =>
               /\ key \in DOMAIN resolved
               /\ IsMap(resolved[key])
               /\ OmitsEmpty(tmpl[key].map, resolved[key].map, raw)

\* C10: empty-value omission: a key whose template is @col is absent from
\* the resolved params, and from the variables sent to the transport, when the
\* CSV field col of the current row is missing, empty or blank, and is
\* bound to the field otherwise.
C10_EmptyValueOmission ==
    /\ \A k \in 1..Len(Records) :
          pc # "fatal" =>
              OmitsEmpty(StepOf(Records[k]).params, Records[k].params,
                         RawRowSeen(Records[k].at))
    /\ \A c \in 1..Len(calls) :
          OmitsEmpty(sequence.steps[calls[c].at[2]].params, calls[c].variables,
                     RawRowSeen(calls[c].at))

\* Three calls with a template t: "@t" were issued: one for an empty CSV
\* field (without the key t at the top and in the nested mapping d) and one
\* for a blank field, both without the key t, and one with the key bound to
\* the field.
C10_Witness ==
    \E a, b, c \in 1..Len(calls) :
        /\ \A k \in {a, b, c} : K_t \in DOMAIN sequence.steps[calls[k].at[2]].params
        /\ K_t \in DOMAIN RawRowSeen(calls[a].at) /\ RawRowSeen(calls[a].at)[K_t] = <<>>
        /\ K_t \notin DOMAIN calls[a].variables
        /\ K_d \in DOMAIN calls[a].variables
        /\ DOMAIN calls[a].variables[K_d].map = {K_n}
        /\ RawRowSeen(calls[b].at)[K_t] = <<" ">>
        /\ K_t \notin DOMAIN calls[b].variables
        /\ K_t \in DOMAIN calls[c].variables
        /\ calls[c].variables[K_t] = VStr(<<"u">>)

\* C11: resolver idempotence: resolving what the resolver returned, against
\* the same context, returns it unchanged.
C11_ResolverIdempotence ==
    [][pc = "resolved" => params' = params]_vars

CurrentStep == sequence.steps[i]

\* The step carries a condition that evaluates to false against the context.
ConditionFalse(step, context) ==
    /\ step.condition # EmptyDict
    /\ evaluate_condition(step.condition, context) = Returned(FALSE)

\* Nothing was executed: no transport call, no log record, no result record,
\* the global context as it was.
NothingExecuted ==
    /\ calls' = calls
    /\ http_logger' = http_logger
    /\ Records' = Records
    /\ global_context' = global_context

\* The step was executed once, for the place at: one more record, and one
\* more transport call when the step has a query.
ExecutedOnce(step, at) ==
    /\ Len(Records') = Len(Records) + 1
    /\ Records'[Len(Records')].at = at
    /\ IF step.graphql_query # <<>>
       THEN Len(calls') = Len(calls) + 1 /\ calls'[Len(calls')].at = at
       ELSE calls' = calls

\* C12: condition gating: a step that does not iterate is skipped (no
\* transport call, no record, global context unchanged) exactly when its
\* condition is false against the global context; an iterating step is never
\* skipped at step level for its condition (it is passed over only when no
\* row is left to iterate), and each of its rows is skipped exactly when the
\* condition is false against that row's iteration context.
C12_ConditionGating ==
    [][ /\ (pc = "steps" /\ i <= Len(sequence.steps) /\ ~Iterates(CurrentStep)) =>
              IF ConditionFalse(CurrentStep, global_context)
              THEN NothingExecuted /\ i' = i + 1 /\ pc' = "steps"
              ELSE ExecutedOnce(CurrentStep, <<master_idx, i, 0>>)
        /\ (pc = "steps" /\ i <= Len(sequence.steps) /\ Iterates(CurrentStep)) =>
              /\ NothingExecuted
              /\ pc' = "steps" =>
                    iteration_dataset(CurrentStep, data_sources', global_context) = <<>>
        /\ (pc = "iter" /\ idx < Len(dataset)) =>
              IF ConditionFalse(CurrentStep,
                                iteration_context(global_context, dataset[idx + 1], idx + 1))
              THEN NothingExecuted /\ idx' = idx + 1 /\ pc' = "iter"
              ELSE ExecutedOnce(CurrentStep, <<master_idx, i, idx + 1>>) ]_vars

\* The run over the sites A and B with the steps each_when (the lans of the
\* site, except lan M) and when (only for site A) returned: lan L of site A
\* and the step of site A were executed, lan M of site B and the step of
\* site B were skipped.
C12_Witness ==
    /\ pc = "done"
    /\ master_idx = 2
    /\ Len(sequence.steps) = 2
    /\ sequence.steps[1].step_name = "each_when"
    /\ sequence.steps[2].step_name = "when"
    /\ Ats(results) = << <<1, 1, 1>>, <<1, 2, 0>> >>
    /\ Ats(calls) = Ats(results)
    /\ results[1].params[K_n] = VStr(<<"L">>)

\* a is b without some of its elements: nothing added, nothing twice, the
\* order kept.
RECURSIVE IsSubsequence(_, _)
IsSubsequence(a, b) ==
    IF a = <<>> THEN TRUE
    ELSE IF b = <<>> THEN FALSE
    ELSE IF Head(a) = Head(b) THEN IsSubsequence(Tail(a), Tail(b))
    ELSE IsSubsequence(a, Tail(b))

\* out holds exactly the records of inp that satisfy Keeps, in inp's order.
ExactlyTheRows(out, inp, Keeps(_)) ==
    /\ IsSubsequence(out, inp)
    /\ \A k \in 1..Len(out) : Keeps(out[k])
    /\ Len(out) = Cardinality({k \in 1..Len(inp) : Keeps(inp[k])})

\* The current master record: the global context's iteration_row, if any.
HasMasterRecord == K_iteration_row \in DOMAIN global_context
MasterRecord == global_context[K_iteration_row].map

Empty(v) == v = None \/ v = VStr(<<>>)

\* The value the join compares with: that of context_key in the master record.
JoinValue(join_on) ==
    IF /\ HasMasterRecord
       /\ K_context_key \in DOMAIN join_on
       /\ join_on[K_context_key].str \in DOMAIN MasterRecord
    THEN MasterRecord[join_on[K_context_key].str]
    ELSE None

\* C13: join: the join leaves exactly the records whose local_key column
\* equals the value of context_key in the master record, in their order; it
\* leaves the dataset as it is when the step has no join descriptor, a key
\* is empty or missing, there is no master record, or the value is absent
\* or empty; and it is applied to the dataset before the filter.
C13_Join ==
    [][ pc = "join" =>
          LET join_on == sequence.steps[1].join_on IN
          /\ pc' = "filter"
          /\ IF \/ Empty(DictGet(join_on, K_local_key))
                \/ Empty(DictGet(join_on, K_context_key))
                \/ Empty(JoinValue(join_on))
             THEN dataset' = dataset
             ELSE ExactlyTheRows(dataset', dataset,
                      LAMBDA row : /\ join_on[K_local_key].str \in DOMAIN row
                                   /\ row[join_on[K_local_key].str] = JoinValue(join_on)) ]_vars

\* In the batch of site A, the join on the site's name has left the first
\* and the third lan of three.
C13_Witness ==
    /\ pc = "filter"
    /\ sequence.steps[1].join_on = JoinOn(K_s, K_n)
    /\ HasMasterRecord /\ MasterRecord[K_n] = VStr(<<"A">>)
    /\ Len(data_sources[N_lans]) = 3
    /\ dataset = << data_sources[N_lans][1], data_sources[N_lans][3] >>

\* expr has the form ${name}.
IsReference(expr) ==
    IsStr(expr) /\ startswith(expr.str, <<"$", "{">>) /\ endswith(expr.str, <<"}">>)

\* The value of the reference expr: that of name in the master record, and,
\* when it is missing or empty there, that of name in the context.
FilterValue(expr) ==
    LET name == SliceInner(expr.str, 2)
        in_row == IF HasMasterRecord THEN DictGet(MasterRecord, name) ELSE None
    IN  IF Empty(in_row) THEN DictGet(global_context, name) ELSE in_row

\* The record passes the clause column -> expr.
ClauseKeeps(row, column, expr) ==
    IF IsReference(expr)
    THEN Truthy(FilterValue(expr)) => DictGet(row, column) = FilterValue(expr)
    ELSE DictGet(row, column) = expr

\* C14: filter: the filter leaves exactly the records that pass every
\* clause, in their order: a clause whose expr is a ${name} reference
\* compares the column with the value of name in the master record, else in
\* the context, and passes every record when that value is missing or
\* empty; a clause with any other expr compares the column with expr itself.
C14_Filter ==
    [][ pc = "filter" =>
          LET filter_by == sequence.steps[1].filter_by IN
          ExactlyTheRows(dataset', dataset,
              LAMBDA row : \A column \in DOMAIN filter_by :
                               ClauseKeeps(row, column, filter_by[column])) ]_vars

\* C15: filter/join purity: what the join and the filter return is the
\* dataset they were given without some of its records (none added, none
\* twice, order kept), and the dataset the data sources hold is what it was.
C15_JoinFilterPurity ==
    [][ (pc = "join" \/ pc = "filter") =>
          /\ IsSubsequence(dataset', dataset)
          /\ data_sources' = data_sources
          /\ global_context' = global_context ]_vars

\* The join left two of the three lans and the filter one of these two; the
\* data sources still hold the three.
C15_Witness ==
    /\ pc = "loop"
    /\ sequence.steps[1].join_on = JoinOn(K_s, K_n)
    /\ sequence.steps[1].filter_by = (K_n :> VStr(<<"L">>))
    /\ HasMasterRecord /\ MasterRecord[K_n] = VStr(<<"A">>)
    /\ Len(data_sources[N_lans]) = 3
    /\ dataset = << data_sources[N_lans][1] >>

\* C16: every transport call carries variables whose top-level accountId is
\* the configured account id, whatever accountId the step's params name,
\* and the params of every result record carry the same accountId.
C16_AccountIdInjected ==
    /\ \A c \in 1..Len(calls) :
          /\ K_accountId \in DOMAIN calls[c].variables
          /\ calls[c].variables[K_accountId] = VStr(account_id)
    /\ \A k \in 1..Len(Records) :
          /\ K_accountId \in DOMAIN Records[k].params
          /\ Records[k].params[K_accountId] = VStr(account_id)
          /\ \A c \in 1..Len(calls) :
                calls[c].at = Records[k].at => calls[c].variables = Records[k].params

\* Calls were issued for a step whose params name a literal accountId and
\* for a row of a step whose params take accountId from the row: both carry
\* the configured account id.
C16_Witness ==
    \E a \in 1..Len(calls), b \in 1..Len(calls) :
        /\ K_accountId \in DOMAIN sequence.steps[calls[a].at[2]].params
        /\ sequence.steps[calls[a].at[2]].params[K_accountId] = VStr(<<"u">>)
        /\ K_accountId \in DOMAIN sequence.steps[calls[b].at[2]].params
        /\ sequence.steps[calls[b].at[2]].params[K_accountId] = VStr(At(K_n))
        /\ calls[b].at[3] > 0
        /\ \A k \in {a, b} : calls[k].variables[K_accountId] = VStr(account_id)

\* The decoded body of a response is a mapping with an errors entry.
CarriesErrors(reply) ==
    /\ "body" \in DOMAIN reply
    /\ IsMap(reply.body)
    /\ K_errors \in DOMAIN reply.body.map

\* C17: execute returns the decoded response body if and only if the HTTP
\* status is below 400 and the body carries no errors entry: a status of
\* 400 or more is an error whatever the body, errors in the body are an
\* error under a status below 400, and a body that does not decode is
\* returned as {raw_text: body} under a status below 400.
C17_OutcomeClassification ==
    \A c \in 1..Len(calls) :
        LET reply == calls[c].reply
            out == calls[c].out
        IN  /\ reply.kind = "exception" => out.raised
            /\ reply.kind = "response" =>
                 /\ ~out.raised <=> (reply.status_code < 400 /\ ~CarriesErrors(reply))
                 /\ ("body" \in DOMAIN reply /\ ~out.raised) => out.value = reply.body
                 /\ ("text" \in DOMAIN reply /\ reply.status_code < 400) =>
                        /\ ~out.raised
                        /\ out.value = VMap(K_raw_text :> VStr(reply.text))

\* C18: with logging enabled there is one log record per call of execute,
\* on every outcome path, and the record's error is set exactly when the
\* call failed.
C18_OneLogRecordPerCall ==
    (pc = "client" /\ http_logger.enabled) =>
        /\ Len(http_logger.logs) = Len(calls)
        /\ \A c \in 1..Len(calls) :
              c <= Len(http_logger.logs) =>
                  (http_logger.logs[c].error # None <=> calls[c].out.raised)

\* The run ended early: cancelled, or on an exception that reached main.
EndedEarly == pc = "cancelled" \/ pc = "exit_fatal"

\* C19: when the run is cancelled between steps or iterations, or ends on
\* a fatal error, after transport calls were issued, the result records
\* and the HTTP log records made so far are in the result file and the log
\* file.
C19_PartialProgressFlushed ==
    (EndedEarly /\ calls # <<>>) =>
        /\ F_results \in DOMAIN output_dir
        /\ F_http_requests \in DOMAIN output_dir
        /\ output_dir[F_http_requests] = http_logger.logs

\* The document holds no list under the key sequence.
LacksSequenceArray ==
    \/ ~IsMap(document)
    \/ K_sequence \notin DOMAIN document.map
    \/ ~IsList(document.map[K_sequence])

\* C20: load_sequence fails on a document without a sequence array: the
\* run goes from the loader to main's handler and no step list is executed.
C20_RejectsMissingSequence ==
    (LacksSequenceArray /\ pc # "main") => (pc = "fatal" \/ pc = "exit_fatal")

\* The sleeps made after the execution at a place.
SleepsAt(at) == {k \in 1..Len(sleeps) : sleeps[k].at = at}

\* C21: after a step that does not iterate the orchestrator sleeps
\* wait_seconds, once, exactly when the step succeeded and wait_seconds is
\* positive; after a step that ended with status error it does not sleep.
C21_SinglePacing ==
    \A k \in 1..Len(Records) :
        LET record == Records[k]
            step == sequence.steps[record.at[2]]
        IN  record.at[3] = 0 =>
              IF record.status = "success" /\ step.wait_seconds > 0
              THEN /\ Cardinality(SleepsAt(record.at)) = 1
                   /\ \A n \in SleepsAt(record.at) : sleeps[n].seconds = step.wait_seconds
              ELSE SleepsAt(record.at) = {}

\* The iteration of the step at place at is over.
IterationOver(at) ==
    ~(pc = "iter" /\ master_idx = at[1] /\ i = at[2] /\ idx < Len(dataset))

\* C22: a sleep of an iterating step comes only after a successful
\* iteration that is followed by another executed iteration of the same
\* step: none after a failed iteration, none after the last iteration
\* executed, whether or not rows skipped by the condition remain.
C22_IterationPacing ==
    \A n \in 1..Len(sleeps) :
        LET at == sleeps[n].at IN
        at[3] > 0 =>
          /\ \E k \in 1..Len(Records) :
                Records[k].at = at /\ Records[k].status = "success"
          /\ IterationOver(at) =>
                \E k \in 1..Len(Records) :
                    /\ Records[k].at[1] = at[1]
                    /\ Records[k].at[2] = at[2]
                    /\ Records[k].at[3] > at[3]

\* The resolution of an element of a sequence as the resolver is described:
\* a mapping as a mapping, a sequence element by element, a leaf substituted,
\* null where the leaf resolves to nothing.
RECURSIVE ResolvedElement(_, _)
ResolvedElement(item, context) ==
    IF IsMap(item) THEN VMap(resolve_variables(item.map, context))
    ELSE IF IsList(item)
    THEN VList([k \in 1..Len(item.list) |-> ResolvedElement(item.list[k], context)])
    ELSE _resolve_single_value(item, context)

\* C23: a sequence in params is resolved element by element and keeps its
\* positions: the resolved sequence has the length of the input, element k
\* is the resolution of input element k (mappings as mappings, sequences
\* recursively, strs substituted), null where it resolves to nothing.
C23_ListPositions ==
    pc = "resolved" =>
        \A key \in DOMAIN sequence.steps[1].params :
            LET value == sequence.steps[1].params[key] IN
            IsList(value) =>
                /\ key \in DOMAIN params
                /\ IsList(params[key])
                /\ Len(params[key].list) = Len(value.list)
                /\ \A k \in 1..Len(value.list) :
                      params[key].list[k] = ResolvedElement(value.list[k], global_context)

\* The field of the condition is an @col or ${name} reference that the
\* context does not resolve: no row, no such column, no such name, or the
\* name bound to null.
UnresolvableField(condition, context) ==
    /\ K_field \in DOMAIN condition
    /\ IsStr(condition[K_field])
    /\ LET field == condition[K_field].str IN
         \/ /\ startswith(field, <<"@">>)
            /\ \/ K_iteration_row \notin DOMAIN context
               \/ SliceFrom(field, 1) \notin DOMAIN context[K_iteration_row].map
         \/ /\ startswith(field, <<"$", "{">>) /\ endswith(field, <<"}">>)
            /\ \/ SliceInner(field, 2) \notin DOMAIN context
               \/ context[SliceInner(field, 2)] = None

\* C24: a condition whose field is a reference that cannot be resolved is
\* false, whatever the operator and the value.
C24_UnresolvableIsFalse ==
    (pc = "evaluated" /\ UnresolvableField(sequence.steps[1].condition, global_context))
        => verdict = Returned(FALSE)

\* A condition on a name bound to null, with the operator !=, was found false.
C24_Witness ==
    /\ pc = "evaluated"
    /\ sequence.steps[1].condition = Condition(Ref(N_N), OP_ne, VStr(<<"A">>))
    /\ N_N \in DOMAIN global_context
    /\ global_context[N_N] = None
    /\ verdict = Returned(FALSE)

\* C27: the condition evaluator is total: for a condition with a str field
\* and any context it returns true or false and raises nothing, whatever
\* the operator and the value.
C27_EvaluatorTotal ==
    (/\ pc = "evaluated"
     /\ K_field \in DOMAIN sequence.steps[1].condition
     /\ IsStr(sequence.steps[1].condition[K_field]))
        => (~verdict.raised /\ verdict.value \in BOOLEAN)

\* What load_sequence produced for the document of the run.
LoadedPlan == load_sequence(document).value

\* C25: the plan is what load_sequence produced, after any sequence of step
\* executions: no step descriptor and no params tree changes; and resolving
\* the params of a step changes nothing in the global context, which an
\* execution changes only by storing the step's result.
C25_PlanImmutable ==
    [][ (pc # "main" /\ ~load_sequence(document).raised) =>
            /\ sequence = LoadedPlan
            /\ sequence' = LoadedPlan
            /\ Len(Records') > Len(Records) =>
                 LET record == Records'[Len(Records')]
                     step == LoadedPlan.steps[record.at[2]]
                 IN  global_context' =
                        IF record.status = "success" /\ step.store_result_as # <<>>
                        THEN DictSet(global_context, step.store_result_as, record.result)
                        ELSE global_context ]_vars

\* The run of a loaded plan ended after a step whose params were resolved
\* from a row and given the account id, and a step that stored its result:
\* the plan is still the loaded one.
C25_Witness ==
    /\ pc = "exit"
    /\ sequence = LoadedPlan
    /\ N_S \in DOMAIN global_context
    /\ \E k \in 1..Len(results) :
          /\ results[k].status = "success"
          /\ results[k].at[3] > 0
          /\ results[k].params # sequence.steps[results[k].at[2]].params
          /\ K_n \in DOMAIN results[k].params
          /\ results[k].params[K_n] # sequence.steps[results[k].at[2]].params[K_n]

\* The run has ended.
Terminated == pc = "done" \/ pc = "fatal"

\* The result records of the executions that failed before the call.
FailedBeforeCall == {k \in 1..Len(Records) : StepOf(Records[k]).graphql_query = <<>>}

\* Each place has at most one record and at most one call, a call only with
\* a record, and the records are the calls and the failures before the call.
OncePerPlace ==
    pc # "fatal" =>
        /\ \A j, k \in 1..Len(Records) : Records[j].at = Records[k].at => j = k
        /\ \A c, d \in 1..Len(calls) : calls[c].at = calls[d].at => c = d
        /\ \A c \in 1..Len(calls) : \E k \in 1..Len(Records) : Records[k].at = calls[c].at
        /\ \A k \in FailedBeforeCall : \A c \in 1..Len(calls) : calls[c].at # Records[k].at
        /\ Len(Records) = Len(calls) + Cardinality(FailedBeforeCall)
        /\ pc = "done" =>
              /\ {results[k].at : k \in 1..Len(results)} \subseteq PlacesOf(1..Len(sequence.steps))
              /\ Len(results) <= Cardinality(PlacesOf(1..Len(sequence.steps)))

\* A step or a row whose condition is false causes no call and no record.
SkippedCausesNothing ==
    /\ (/\ pc = "steps" /\ i <= Len(sequence.steps) /\ ~Iterates(CurrentStep)
        /\ ConditionFalse(CurrentStep, global_context)) => NothingExecuted
    /\ (/\ pc = "iter" /\ idx < Len(dataset)
        /\ ConditionFalse(CurrentStep,
                          iteration_context(global_context, dataset[idx + 1], idx + 1)))
           => NothingExecuted

\* C26: no retries and no duplication: each batch, step and row that is
\* not skipped causes at most one transport call and exactly one result
\* record, a skipped one causes neither, the records are as many as the
\* calls plus the executions that failed before the call, and the run ends
\* after at most batches x rows-per-step executions.
C26_NoRetriesNoDuplication ==
    /\ []OncePerPlace
    /\ [][SkippedCausesNothing]_vars
    /\ <>Terminated

\* The run returned after a row whose call failed, a row skipped by its
\* condition and a step without query: two records, one call.
C26_Witness ==
    /\ pc = "done"
    /\ Len(sequence.steps) = 2
    /\ sequence.steps[1].step_name = "each_but_M"
    /\ sequence.steps[2].step_name = "no_query"
    /\ Ats(results) = << <<0, 1, 1>>, <<0, 2, 0>> >>
    /\ Ats(calls) = << <<0, 1, 1>> >>
    /\ results[1].status = "error"
    /\ results[2].status = "error"

====
